---- MODULE Spec2Model ----
(***************************************************************************)
(* A model of slowmatch: the graph flooder (graph_flooder.py, graph.py,    *)
(* graph_fill_region.py, events.py), the alternating tree                  *)
(* (alternating_tree.py), region paths (region_path.py) and the MWPM state *)
(* machine (mwpm.py), driven by Matching.decode_from_event_locations       *)
(* (exposed.py).                                                           *)
(*                                                                         *)
(* Encoding.  Python's None is 0: detector nodes, regions, alternating     *)
(* tree nodes and tentative events are numbered from 1 (the code numbers   *)
(* regions and events from 0; only the order of the ids is observable).    *)
(* An optional record (Match, the parent AltTreeEdge) is a sequence of     *)
(* length 0 or 1.  Times and radii are held in half units (the value       *)
(* stored is twice the Python value), so that the half-integer collision   *)
(* times of the code are integers here; graph weights, distance_from_source*)
(* and CompressedEdge.distance are held as in the code.                    *)
(***************************************************************************)
EXTENDS Integers, Sequences, FiniteSets, TLC

None == 0

(* ---------------------------------------------------------------------- *)
(* Bounds of the model.                                                     *)
(* ---------------------------------------------------------------------- *)
\* Largest number of detection events in a syndrome.
MaxEvents == 5
\* Largest amount added to the weight of the stretched edge of a graph.
MaxStretch == 1

(* ---------------------------------------------------------------------- *)
(* Small helpers.                                                           *)
(* ---------------------------------------------------------------------- *)
Last(s) == s[Len(s)]

Front(s) == SubSeq(s, 1, Len(s) - 1)

Range(s) == {s[i] : i \in 1..Len(s)}

RECURSIVE Xor(_, _)
\* Python's a ^ b on non-negative integers.
Xor(a, b) ==
    IF a = 0 THEN b
    ELSE IF b = 0 THEN a
    ELSE (((a % 2) + (b % 2)) % 2) + 2 * Xor(a \div 2, b \div 2)

RECURSIVE NumBits(_)
\* len(bin(n)[:1:-1]): the number of binary digits of n (1 for n = 0).
NumBits(n) == IF n < 2 THEN 1 ELSE 1 + NumBits(n \div 2)

(* ---------------------------------------------------------------------- *)
(* varying.py: a value a + s*(t - t0).                                      *)
(* ---------------------------------------------------------------------- *)
Varying(base, slope, base_time) ==
    [base |-> base, slope |-> slope, base_time |-> base_time]

\* Varying.T = Varying(slope=1)
VaryingT == Varying(0, 1, 0)

\* Varying.__call__
VCall(v, t) == v.base + (t - v.base_time) * v.slope

\* Varying.__add__ with a Varying operand
VAdd(v, o) == Varying(v.base + VCall(o, v.base_time), v.slope + o.slope, v.base_time)

\* Varying.__sub__ with a number operand (self.__add__(-other))
VSubNum(v, n) == Varying(v.base - n, v.slope, v.base_time)

\* A faulty then_slope_at that keeps the old base value instead of the
\* value at the time of the change; C10 is tested against it.
then_slope_keeping_base(v, time_of_change, new_slope) ==
    Varying(v.base, new_slope, time_of_change)

\* Varying.then_slope_at
then_slope_at(v, time_of_change, new_slope) ==
    Varying(VCall(v, time_of_change), new_slope, time_of_change)

\* Varying.zero_intercept (called only with a non-zero slope)
zero_intercept(v) == v.base_time - (v.base \div v.slope)

\* The division of zero_intercept is exact (no half unit is lost).
ZeroInterceptExact(v) == v.base % (IF v.slope < 0 THEN -v.slope ELSE v.slope) = 0

(* ---------------------------------------------------------------------- *)
(* compressed_edge.py                                                       *)
(* ---------------------------------------------------------------------- *)
CompressedEdge(loc_from, loc_to, obs_mask, distance) ==
    [loc_from |-> loc_from, loc_to |-> loc_to, obs_mask |-> obs_mask, distance |-> distance]

\* The edge=None of a RegionEdge or of a root's inner_outer_edge.
NoEdge == CompressedEdge(None, None, 0, 0)

\* CompressedEdge.reversed
EdgeReversed(e) == CompressedEdge(e.loc_to, e.loc_from, e.obs_mask, e.distance)

\* A faulty merged_with that forgets the length of the second edge; C1 is
\* tested against it.
merged_with_first_distance(a, b) ==
    CompressedEdge(a.loc_from, b.loc_to, Xor(a.obs_mask, b.obs_mask), a.distance)

\* CompressedEdge.merged_with; mergeable says whether the code raises.
Mergeable(a, b) == a.loc_to = b.loc_from

merged_with(a, b) ==
    CompressedEdge(a.loc_from, b.loc_to, Xor(a.obs_mask, b.obs_mask), a.distance + b.distance)

(* ---------------------------------------------------------------------- *)
(* graph.py: Graph.add_edge, Graph.add_boundary_edge.                       *)
(* A graph is [nodes, num_observables]; nodes maps a location to the        *)
(* static part of its LocationData.                                         *)
(* ---------------------------------------------------------------------- *)
NewLocation ==
    [neighbors |-> <<>>, neighbors_with_boundary |-> <<>>, distances |-> <<>>,
     observables |-> <<>>, neighbor_index |-> <<>>]

EmptyGraph == [nodes |-> <<>>, num_observables |-> 0]

\* self.nodes after "if u not in self.nodes: self.nodes[u] = LocationData(u)";
\* locations are 1..n and are created in increasing order.
RECURSIVE WithNode(_, _)
WithNode(nodes, u) ==
    IF u <= Len(nodes) THEN nodes ELSE WithNode(Append(nodes, NewLocation), u)

\* One adjacency entry appended to a LocationData.  The index stored is
\* 0-based, as in the code; slot i of the code is slot i + 1 here.
WithNeighbor(loc, nb, nbb, weight, observables, index) ==
    [neighbors |-> Append(loc.neighbors, nb),
     neighbors_with_boundary |-> Append(loc.neighbors_with_boundary, nbb),
     distances |-> Append(loc.distances, weight),
     observables |-> Append(loc.observables, observables),
     neighbor_index |-> Append(loc.neighbor_index, index)]

add_edge(g, u, v, weight, observables) ==
    LET n0 == WithNode(WithNode(g.nodes, u), v)
        \* udata gets len(vdata.neighbors) before vdata is appended to
        iu == Len(n0[v].neighbors)
        n1 == [n0 EXCEPT ![u] = WithNeighbor(@, v, v, weight, observables, iu)]
        \* vdata gets len(udata.neighbors) - 1 after udata was appended to
        iv == Len(n1[u].neighbors) - 1
        n2 == [n1 EXCEPT ![v] = WithNeighbor(@, u, u, weight, observables, iv)]
        num_obs_bits == NumBits(observables)
    IN  [nodes |-> n2,
         num_observables |-> IF num_obs_bits > g.num_observables
                             THEN num_obs_bits ELSE g.num_observables]

\* add_boundary_edge with boundary_node=None
add_boundary_edge(g, u, weight, observables) ==
    LET n0 == WithNode(g.nodes, u)
    IN  [nodes |-> [n0 EXCEPT ![u] = WithNeighbor(@, None, None, weight, observables, None)],
         num_observables |-> g.num_observables]

(* ---------------------------------------------------------------------- *)
(* The state of one Matching object.                                        *)
(* ---------------------------------------------------------------------- *)
VARIABLES
    graph,      \* Matching.graph (fixed once constructed)
    node,       \* the discovery fields and schedule_list of every LocationData
    region,     \* every GraphFillRegion ever created, by id
    tree,       \* every AltTreeNode ever created
    events,     \* every TentativeEvent ever scheduled, by event_id
    heap,       \* GraphFlooder._sorted_schedule, the heapq array of event ids
    time,       \* GraphFlooder.time (half units)
    err,        \* "" or the exception that ended the decode
    detection_events,   \* Mwpm.detection_events
    pending,    \* the detection events decode_from_event_locations has yet to add
    pc,         \* position in decode_from_event_locations
    event,      \* the MwpmEvent returned by the last next_event call
    applied,    \* the tentative event applied by the last step of next_event
    result,     \* the MatchingResult
    syndrome,   \* the detection events given to decode_from_event_locations
    stale       \* history: the queued events that a set_region_growth or
                \* create_blossom call found scheduled for its regions

vars == <<graph, node, region, tree, events, heap, time, err, detection_events,
          pending, pc, event, applied, result, syndrome, stale>>

\* distance_from_source = None
NoDistance == -1

\* LocationData.__init__ / LocationData.cleanup for a node with n neighbours.
CleanNode(n) ==
    [observables_crossed |-> 0, reached_from_source |-> None,
     distance_from_source |-> NoDistance, region_that_arrived |-> None,
     schedule_list |-> [i \in 1..n |-> None]]

\* GraphFillRegion.__init__
GraphFillRegion(id, source, radius, blossom_children) ==
    [id |-> id, source |-> source, shell_area |-> <<>>, radius |-> radius,
     blossom_children |-> blossom_children, alt_tree_node |-> None,
     blossom_parent |-> None, shrink_event |-> None, match |-> <<>>]

\* The mutable objects, gathered so that a handler can thread them through
\* the calls it makes.
State == [node |-> node, region |-> region, tree |-> tree, events |-> events,
          heap |-> heap, time |-> time, err |-> err, stale |-> stale]

Fail(s, what) == IF s.err = "" THEN [s EXCEPT !.err = what] ELSE s

NumNeighbors(n) == Len(graph.nodes[n].neighbors)

(* ---------------------------------------------------------------------- *)
(* heapq (CPython), ordered by TentativeEvent.__lt__ of events.py, which    *)
(* compares the times only.                                                 *)
(* ---------------------------------------------------------------------- *)
\* A faulty __lt__ that orders the heap by decreasing time; C5 is tested
\* against it.
EventLtReversed(ev, a, b) == ev[a].time > ev[b].time

EventLt(ev, a, b) == ev[a].time < ev[b].time

\* heapq._siftdown(heap, 0, pos) with newitem taken out of position pos;
\* positions are 1-based here.
RECURSIVE SiftDown(_, _, _, _)
SiftDown(ev, h, pos, newitem) ==
    IF pos > 1 /\ EventLt(ev, newitem, h[pos \div 2])
    THEN SiftDown(ev, [h EXCEPT ![pos] = h[pos \div 2]], pos \div 2, newitem)
    ELSE [h EXCEPT ![pos] = newitem]

heappush(ev, h, item) == SiftDown(ev, Append(h, item), Len(h) + 1, item)

\* heapq._siftup(heap, 0): bubble the smaller child up to a leaf, then
\* sift newitem down from there.
RECURSIVE SiftUp(_, _, _, _)
SiftUp(ev, h, pos, newitem) ==
    LET childpos == 2 * pos
        rightpos == childpos + 1
        c == IF rightpos <= Len(h) /\ ~EventLt(ev, h[childpos], h[rightpos])
             THEN rightpos ELSE childpos
    IN  IF childpos <= Len(h)
        THEN SiftUp(ev, [h EXCEPT ![pos] = h[c]], c, newitem)
        ELSE SiftDown(ev, h, pos, newitem)

\* heappop: the item returned and the heap left.
HeapTop(h) == h[1]

heappop(ev, h) ==
    IF Len(h) = 1 THEN <<>>
    ELSE SiftUp(ev, Front(h), 1, Last(h))

(* ---------------------------------------------------------------------- *)
(* graph_fill_region.py and graph.py: queries.                              *)
(* ---------------------------------------------------------------------- *)
\* GraphFillRegion.top_region
RECURSIVE top_region(_, _)
top_region(s, r) ==
    IF s.region[r].blossom_parent = None THEN r
    ELSE top_region(s, s.region[r].blossom_parent)

\* A faulty LocationData.top_region that stops at the region that arrived
\* at the node; C7 is tested against it.
region_that_arrived_at(s, n) == s.node[n].region_that_arrived

\* LocationData.top_region
NodeTopRegion(s, n) ==
    IF s.node[n].region_that_arrived = None THEN None
    ELSE top_region(s, s.node[n].region_that_arrived)

\* LocationData.has_same_owner_as
has_same_owner_as(s, n, other) ==
    IF s.node[n].region_that_arrived = None \/ s.node[other].region_that_arrived = None
    THEN FALSE
    ELSE NodeTopRegion(s, n) = NodeTopRegion(s, other)

\* The sum of the radii of r and of every blossom around it.
RECURSIVE CumulativeRadius(_, _, _)
CumulativeRadius(s, r, tot_rad) ==
    IF s.region[r].blossom_parent = None THEN tot_rad
    ELSE CumulativeRadius(s, s.region[r].blossom_parent,
                          VAdd(tot_rad, s.region[s.region[r].blossom_parent].radius))

\* LocationData.total_radius
total_radius(s, n) ==
    LET src == s.node[n].reached_from_source
    IN  IF src = None THEN Varying(0, 0, 0)
        ELSE LET cur_region == s.node[src].region_that_arrived
             IN  CumulativeRadius(s, cur_region, s.region[cur_region].radius)

\* LocationData.local_radius
local_radius(s, n) ==
    IF s.node[n].region_that_arrived # None
    THEN VSubNum(total_radius(s, n), 2 * s.node[n].distance_from_source)
    ELSE Varying(0, 0, 0)

\* GraphFillRegion.iter_total_area, as a sequence
RECURSIVE iter_total_area(_, _)
RECURSIVE ChildrenArea(_, _, _)
ChildrenArea(s, children, k) ==
    IF k > Len(children) THEN <<>>
    ELSE iter_total_area(s, children[k].region) \o ChildrenArea(s, children, k + 1)

iter_total_area(s, r) ==
    LET shell == s.region[r].shell_area
    IN  [i \in 1..Len(shell) |-> shell[Len(shell) + 1 - i]]
        \o ChildrenArea(s, s.region[r].blossom_children, 1)

(* ---------------------------------------------------------------------- *)
(* events.py: tentative events and their invalidation.                      *)
(* ---------------------------------------------------------------------- *)
TentativeNeighborInteractionEvent(t, id, n1, i1, n2, i2) ==
    [kind |-> "neighbor", time |-> t, event_id |-> id,
     location_data_1 |-> n1, schedule_list_index_1 |-> i1,
     location_data_2 |-> n2, schedule_list_index_2 |-> i2,
     region |-> None, is_invalidated |-> FALSE]

TentativeRegionShrinkEvent(t, id, r) ==
    [kind |-> "shrink", time |-> t, event_id |-> id,
     location_data_1 |-> None, schedule_list_index_1 |-> None,
     location_data_2 |-> None, schedule_list_index_2 |-> None,
     region |-> r, is_invalidated |-> FALSE]

\* An invalidate that flags the event and leaves it in its slots.
InvalidateNeighborEventFlagOnly(s, e) ==
    [s EXCEPT !.events[e].is_invalidated = TRUE]

\* TentativeNeighborInteractionEvent.invalidate
InvalidateNeighborEvent(s, e) ==
    LET x == s.events[e]
        n1 == x.location_data_1
        i1 == x.schedule_list_index_1
        n2 == x.location_data_2
        i2 == x.schedule_list_index_2
        s1 == [s EXCEPT !.events[e].is_invalidated = TRUE]
    IN  IF s1.node[n1].schedule_list[i1] # e
        THEN Fail(s1, "AssertionError: invalidate")
        ELSE LET s2 == [s1 EXCEPT !.node[n1].schedule_list[i1] = None]
             IN  IF i2 = None THEN s2
                 ELSE IF s2.node[n2].schedule_list[i2] # e
                 THEN Fail(s2, "AssertionError: invalidate")
                 ELSE [s2 EXCEPT !.node[n2].schedule_list[i2] = None]

\* TentativeRegionShrinkEvent.invalidate
InvalidateShrinkEvent(s, e) ==
    IF s.events[e].is_invalidated THEN s
    ELSE IF s.region[s.events[e].region].shrink_event # e
    THEN Fail(s, "AssertionError: invalidate")
    ELSE [s EXCEPT !.events[e].is_invalidated = TRUE]

\* A faulty invalidate_involved_schedule_items that leaves the events of
\* the slots of a node valid; C6 is tested against it.
KeepSlots(s, n, i) == s

\* LocationData.invalidate_involved_schedule_items
RECURSIVE InvalidateSlots(_, _, _)
InvalidateSlots(s, n, i) ==
    IF i > Len(s.node[n].schedule_list) THEN s
    ELSE LET e == s.node[n].schedule_list[i]
         IN  InvalidateSlots(IF e # None THEN InvalidateNeighborEvent(s, e) ELSE s, n, i + 1)

\* A faulty invalidate_involved_schedule_items that leaves the shrink event
\* of a region valid; C4 is tested against it.
KeepShrinkEvent(s, r) == s

\* GraphFillRegion.invalidate_involved_schedule_items
RegionInvalidateScheduleItems(s, r) ==
    IF s.region[r].shrink_event # None
    THEN [InvalidateShrinkEvent(s, s.region[r].shrink_event)
            EXCEPT !.region[r].shrink_event = None]
    ELSE s

(* ---------------------------------------------------------------------- *)
(* graph_flooder.py: scheduling.                                            *)
(* ---------------------------------------------------------------------- *)
\* A faulty _schedule_tentative_event that sets a neighbour interaction one
\* step of time after the two local radii fill the edge; C39 is tested
\* against it.
ScheduleNeighborEventLate(s, n1, i1, n2, i2, rad3) ==
    LET id == Len(s.events) + 1
        x  == TentativeNeighborInteractionEvent(zero_intercept(rad3) + 1, id, n1, i1, n2, i2)
        ev == Append(s.events, x)
        s1 == [s EXCEPT !.events = ev,
                        !.heap = heappush(ev, s.heap, id),
                        !.node[n1].schedule_list[i1] = id]
        s2 == IF i2 = None THEN s1 ELSE [s1 EXCEPT !.node[n2].schedule_list[i2] = id]
    IN  IF ZeroInterceptExact(rad3) THEN s2 ELSE Fail(s2, "model: time off the half-unit grid")

\* GraphFlooder._schedule_tentative_event for a neighbour interaction
ScheduleNeighborEvent(s, n1, i1, n2, i2, rad3) ==
    LET id == Len(s.events) + 1
        x  == TentativeNeighborInteractionEvent(zero_intercept(rad3), id, n1, i1, n2, i2)
        ev == Append(s.events, x)
        s1 == [s EXCEPT !.events = ev,
                        !.heap = heappush(ev, s.heap, id),
                        !.node[n1].schedule_list[i1] = id]
        s2 == IF i2 = None THEN s1 ELSE [s1 EXCEPT !.node[n2].schedule_list[i2] = id]
    IN  IF ZeroInterceptExact(rad3) THEN s2 ELSE Fail(s2, "model: time off the half-unit grid")

\* GraphFlooder._schedule_tentative_event for a region shrink event
ScheduleShrinkEvent(s, r, rad) ==
    LET id == Len(s.events) + 1
        x  == TentativeRegionShrinkEvent(zero_intercept(rad), id, r)
        ev == Append(s.events, x)
    IN  [s EXCEPT !.events = ev,
                  !.heap = heappush(ev, s.heap, id),
                  !.region[r].shrink_event = id]

\* A faulty loop over the neighbour slots that does not skip a neighbour
\* with the same top-level owner; C8 is tested against it.
RECURSIVE RescheduleSlotsOfAnyOwner(_, _, _, _)
RescheduleSlotsOfAnyOwner(s, n, rad1, i) ==
    IF i > NumNeighbors(n) THEN s
    ELSE
      LET nb       == graph.nodes[n].neighbors[i]
          distance == graph.nodes[n].distances[i]
      IN  IF nb = None
          THEN LET rad3 == VSubNum(rad1, 2 * distance)
               IN  RescheduleSlotsOfAnyOwner(
                       IF rad3.slope <= 0 THEN s
                       ELSE ScheduleNeighborEvent(s, n, i, None, None, rad3),
                       n, rad1, i + 1)
          ELSE LET rad2 == local_radius(s, nb)
                   rad3 == VSubNum(VAdd(rad1, rad2), 2 * distance)
               IN  RescheduleSlotsOfAnyOwner(
                       IF rad3.slope <= 0 THEN s
                       ELSE ScheduleNeighborEvent(s, n, i, nb,
                                graph.nodes[n].neighbor_index[i] + 1, rad3),
                       n, rad1, i + 1)

\* The loop over the neighbour slots of _reschedule_events_at_location.
RECURSIVE RescheduleSlots(_, _, _, _)
RescheduleSlots(s, n, rad1, i) ==
    IF i > NumNeighbors(n) THEN s
    ELSE
      LET nb       == graph.nodes[n].neighbors[i]
          distance == graph.nodes[n].distances[i]
      IN  IF nb = None
          THEN \* boundary slot
               LET rad3 == VSubNum(rad1, 2 * distance)
               IN  RescheduleSlots(IF rad3.slope <= 0 THEN s
                                   ELSE ScheduleNeighborEvent(s, n, i, None, None, rad3),
                                   n, rad1, i + 1)
          ELSE IF has_same_owner_as(s, n, nb)
          THEN RescheduleSlots(s, n, rad1, i + 1)
          ELSE LET rad2 == local_radius(s, nb)
                   rad3 == VSubNum(VAdd(rad1, rad2), 2 * distance)
               IN  RescheduleSlots(
                       IF rad3.slope <= 0 THEN s
                       ELSE ScheduleNeighborEvent(s, n, i, nb,
                                graph.nodes[n].neighbor_index[i] + 1, rad3),
                       n, rad1, i + 1)

\* GraphFlooder._reschedule_events_at_location
reschedule_events_at_location(s, n) ==
    LET s1 == InvalidateSlots(s, n, 1)
    IN  RescheduleSlots(s1, n, local_radius(s1, n), 1)

RECURSIVE RescheduleLocations(_, _, _)
RescheduleLocations(s, locs, k) ==
    IF k > Len(locs) THEN s
    ELSE RescheduleLocations(reschedule_events_at_location(s, locs[k]), locs, k + 1)

\* A shrink event that waits for the radius of the region itself to reach 0
\* although the region still holds nodes.
ScheduleShrinkAtRegionRadius(s, r) == ScheduleShrinkEvent(s, r, s.region[r].radius)

\* The shrink event of a region with a negative slope: when its last-added
\* node leaves, or when the region itself reaches radius 0 if it has no node.
ScheduleNextShrink(s, r) ==
    LET shell == s.region[r].shell_area
    IN  IF Len(shell) = 0
        THEN ScheduleShrinkEvent(s, r, s.region[r].radius)
        ELSE ScheduleShrinkEvent(s, r, local_radius(s, Last(shell)))

\* GraphFlooder._reschedule_events_for_region
reschedule_events_for_region(s, r) ==
    LET s1 == RegionInvalidateScheduleItems(s, r)
        s2 == IF s1.region[r].radius.slope < 0 THEN ScheduleNextShrink(s1, r) ELSE s1
    IN  RescheduleLocations(s2, iter_total_area(s2, r), 1)

\* History: the queued events that involve region r, a region packed into
\* it, or a detector node of their areas.
RECURSIVE RegionsWithin(_, _)
RegionsWithin(s, r) ==
    {r} \cup UNION {RegionsWithin(s, s.region[r].blossom_children[i].region) :
                       i \in 1..Len(s.region[r].blossom_children)}

Involves(s, e, r) ==
    LET x == s.events[e]
    IN  IF x.kind = "shrink" THEN x.region \in RegionsWithin(s, r)
        ELSE \/ x.location_data_1 \in Range(iter_total_area(s, r))
             \/ x.location_data_2 \in Range(iter_total_area(s, r))

MarkStale(s, r) ==
    [s EXCEPT !.stale = @ \cup {e \in Range(s.heap) : Involves(s, e, r)}]

\* GraphFlooder.set_region_growth
set_region_growth(s, r, new_growth) ==
    LET s0 == MarkStale(s, r)
    IN  reschedule_events_for_region(
            [s0 EXCEPT !.region[r].radius = then_slope_at(@, s0.time, new_growth)], r)

\* An arrival that does not record the observables crossed on the way.
arriving_without_observables(s, r, n, from_source, distance, observables) ==
    reschedule_events_at_location(
        [s EXCEPT !.node[n].region_that_arrived = r,
                  !.node[n].reached_from_source = from_source,
                  !.node[n].distance_from_source = distance,
                  !.node[n].observables_crossed = 0,
                  !.region[r].shell_area = Append(@, n)], n)

\* GraphFlooder._do_region_arriving_at_empty_location
do_region_arriving_at_empty_location(s, r, n, from_source, distance, observables) ==
    reschedule_events_at_location(
        [s EXCEPT !.node[n].region_that_arrived = r,
                  !.node[n].reached_from_source = from_source,
                  !.node[n].distance_from_source = distance,
                  !.node[n].observables_crossed = observables,
                  !.region[r].shell_area = Append(@, n)], n)

\* GraphFlooder.create_region: the region gets the next id and the default
\* radius Varying.T of GraphFillRegion.__init__.
create_region(s, n) ==
    LET k == Len(s.region) + 1
        s1 == [s EXCEPT !.region = Append(@, GraphFillRegion(k, n, VaryingT, <<>>))]
    IN  do_region_arriving_at_empty_location(s1, k, n, n, 0, 0)

\* A faulty loop of create_blossom that packs the regions without
\* freezing them; C9 is tested against it.
RECURSIVE PackWithoutFreezing(_, _, _, _)
PackWithoutFreezing(s, cycle, blossom, k) ==
    IF k > Len(cycle) THEN s
    ELSE LET c == cycle[k].region
         IN  PackWithoutFreezing(
                 [s EXCEPT !.region[c].blossom_parent = blossom,
                           !.region[c].alt_tree_node = None],
                 cycle, blossom, k + 1)

\* The loop of create_blossom over the contained regions.
RECURSIVE FreezeChildren(_, _, _, _)
FreezeChildren(s, cycle, blossom, k) ==
    IF k > Len(cycle) THEN s
    ELSE LET c == cycle[k].region
         IN  FreezeChildren(
                 [s EXCEPT !.region[c].radius = then_slope_at(@, s.time, 0),
                           !.region[c].blossom_parent = blossom,
                           !.region[c].alt_tree_node = None],
                 cycle, blossom, k + 1)

RECURSIVE InvalidateChildren(_, _, _)
InvalidateChildren(s, cycle, k) ==
    IF k > Len(cycle) THEN s
    ELSE InvalidateChildren(RegionInvalidateScheduleItems(s, cycle[k].region), cycle, k + 1)

\* GraphFlooder.create_blossom; the new region is the last one of the state returned.
create_blossom(s, cycle) ==
    LET k  == Len(s.region) + 1
        blossom_region == GraphFillRegion(k, None, Varying(0, 1, s.time), cycle)
        s1 == MarkStale([s EXCEPT !.region = Append(@, blossom_region)], k)
        s2 == FreezeChildren(s1, cycle, k, 1)
        s3 == reschedule_events_for_region(s2, k)
    IN  InvalidateChildren(s3, cycle, 1)

(* ---------------------------------------------------------------------- *)
(* graph_fill_region.py: matches.                                           *)
(* ---------------------------------------------------------------------- *)
Match(r, edge) == [region |-> r, edge |-> edge]

is_matched_to_boundary(s, r) ==
    s.region[r].match # <<>> /\ s.region[r].match[1].region = None

matched_to_region(s, r) ==
    s.region[r].match # <<>> /\ s.region[r].match[1].region # None

\* A faulty add_match that leaves the two regions in their alternating
\* trees; C3 is tested against it.
add_match_keeping_tree_nodes(s, r, match, edge) ==
    [s EXCEPT !.region[r].match = <<Match(match, edge)>>,
              !.region[match].match = <<Match(r, EdgeReversed(edge))>>]

\* GraphFillRegion.add_match
add_match(s, r, match, edge) ==
    LET s1 == [s  EXCEPT !.region[r].match = <<Match(match, edge)>>]
        s2 == [s1 EXCEPT !.region[match].match = <<Match(r, EdgeReversed(edge))>>]
        s3 == [s2 EXCEPT !.region[r].alt_tree_node = None]
    IN  [s3 EXCEPT !.region[match].alt_tree_node = None]

(* ---------------------------------------------------------------------- *)
(* region_path.py: a RegionPath is a sequence of RegionEdge records.        *)
(* ---------------------------------------------------------------------- *)
RegionEdge(r, edge) == [region |-> r, edge |-> edge]

\* RegionPath.reversed that turns the order of the regions but not the edges.
PathReversedKeepingEdges(edges) ==
    LET n == Len(edges)
    IN  [i \in 1..n |->
            IF i < n THEN RegionEdge(edges[n - i + 1].region, edges[n - i].edge)
            ELSE RegionEdge(edges[1].region, NoEdge)]

\* RegionPath.reversed
PathReversed(edges) ==
    LET n == Len(edges)
    IN  [i \in 1..n |->
            IF i < n THEN RegionEdge(edges[n - i + 1].region, EdgeReversed(edges[n - i].edge))
            ELSE RegionEdge(edges[1].region, NoEdge)]

\* next(i for i, r in enumerate(regions) if r.region is x), 1-based
IndexOfRegion(edges, x) ==
    CHOOSE i \in 1..Len(edges) :
        edges[i].region = x /\ \A j \in 1..(i - 1) : edges[j].region # x

\* Python's seq[a:b] for 0 <= a, with b clipped to the length
Slice(seq, a, b) ==
    LET hi == IF b > Len(seq) THEN Len(seq) ELSE b
    IN  IF hi <= a THEN <<>> ELSE SubSeq(seq, a + 1, hi)

\* A faulty split_between_regions that returns the second slice as it is
\* when the first has even length; C33 is tested against it.
split_between_regions_unreversed(edges, start_region, end_region) ==
    LET n == Len(edges)
        i == IndexOfRegion(edges, start_region) - 1
        j == IndexOfRegion(edges, end_region) - 1
        regions == edges \o edges
        result1 == Slice(regions, i, j + 1 + (IF j < i THEN n ELSE 0))
        result2 == Slice(regions, j, i + 1 + (IF i <= j THEN n ELSE 0))
    IN  IF Len(result1) % 2 = 1
        THEN <<result1, Slice(result2, 1, Len(result2) - 1)>>
        ELSE <<result2, Slice(result1, 1, Len(result1) - 1)>>

\* A faulty split_between_regions whose even path keeps the two endpoints;
\* C34 is tested against it.
split_between_regions_untrimmed(edges, start_region, end_region) ==
    LET n == Len(edges)
        i == IndexOfRegion(edges, start_region) - 1
        j == IndexOfRegion(edges, end_region) - 1
        regions == edges \o edges
        result1 == Slice(regions, i, j + 1 + (IF j < i THEN n ELSE 0))
        result2 == Slice(regions, j, i + 1 + (IF i <= j THEN n ELSE 0))
    IN  IF Len(result1) % 2 = 1
        THEN <<result1, result2>>
        ELSE <<PathReversed(result2), result1>>

\* RegionPath.split_between_regions: <<odd path, even path>>
split_between_regions(edges, start_region, end_region) ==
    LET n == Len(edges)
        i == IndexOfRegion(edges, start_region) - 1
        j == IndexOfRegion(edges, end_region) - 1
        regions == edges \o edges
        result1 == Slice(regions, i, j + 1 + (IF j < i THEN n ELSE 0))
        result2 == Slice(regions, j, i + 1 + (IF i <= j THEN n ELSE 0))
    IN  IF Len(result1) % 2 = 1
        THEN <<result1, Slice(result2, 1, Len(result2) - 1)>>
        ELSE <<PathReversed(result2), Slice(result1, 1, Len(result1) - 1)>>

\* RegionPath.split_at_region
split_at_region(edges, r) ==
    LET n == Len(edges)
        k == IndexOfRegion(edges, r) - 1
    IN  Slice(edges \o edges, k + 1, k + n)

\* RegionPath.pairs_matched: the state after the add_match calls; the
\* regions yielded are those at the odd positions of the path.
RECURSIVE PairsMatchedFrom(_, _, _)
PairsMatchedFrom(s, edges, k) ==
    IF k > Len(edges) THEN s
    ELSE PairsMatchedFrom(add_match(s, edges[k].region, edges[k + 1].region, edges[k].edge),
                          edges, k + 2)

pairs_matched(s, edges) == PairsMatchedFrom(s, edges, 1)

PairsMatchedRegions(edges) == [k \in 1..(Len(edges) \div 2) |-> edges[2 * k - 1].region]

(* ---------------------------------------------------------------------- *)
(* alternating_tree.py                                                      *)
(* ---------------------------------------------------------------------- *)
AltTreeEdge(n, edge) == [node |-> n, edge |-> edge]

AltTreeNode(inner_region, outer_region, inner_outer_edge) ==
    [inner_region |-> inner_region, outer_region |-> outer_region,
     parent |-> <<>>, children |-> <<>>, inner_outer_edge |-> inner_outer_edge]

\* [e for e in children if e.node is not n]
RECURSIVE WithoutChild(_, _)
WithoutChild(children, n) ==
    IF children = <<>> THEN <<>>
    ELSE IF children[1].node = n THEN WithoutChild(Tail(children), n)
    ELSE <<children[1]>> \o WithoutChild(Tail(children), n)

\* add_child without the link back from the child.
add_child_without_parent(s, n, child) ==
    [s EXCEPT !.tree[n].children = Append(@, child)]

\* AltTreeNode.add_child
add_child(s, n, child) ==
    LET s1 == [s EXCEPT !.tree[n].children = Append(@, child)]
    IN  [s1 EXCEPT !.tree[child.node].parent = <<AltTreeEdge(n, EdgeReversed(child.edge))>>]

\* make_child_inner_outer that leaves the outer region without its tree node.
make_child_forgetting_outer(s, n, inner, outer, inner_outer_edge, child_edge) ==
    LET k  == Len(s.tree) + 1
        s1 == [s  EXCEPT !.tree = Append(@, AltTreeNode(inner, outer, inner_outer_edge))]
        s2 == [s1 EXCEPT !.region[inner].alt_tree_node = k]
    IN  add_child(s2, n, AltTreeEdge(k, child_edge))

\* AltTreeNode.make_child_inner_outer; the new node is the last one of the state returned.
make_child_inner_outer(s, n, inner, outer, inner_outer_edge, child_edge) ==
    LET k  == Len(s.tree) + 1
        s1 == [s  EXCEPT !.tree = Append(@, AltTreeNode(inner, outer, inner_outer_edge))]
        s2 == [s1 EXCEPT !.region[inner].alt_tree_node = k]
        s3 == [s2 EXCEPT !.region[outer].alt_tree_node = k]
    IN  add_child(s3, n, AltTreeEdge(k, child_edge))

\* AltTreeNode.find_root
RECURSIVE find_root(_, _)
find_root(s, n) ==
    IF s.tree[n].parent = <<>> THEN n ELSE find_root(s, s.tree[n].parent[1].node)

\* AltTreeNode.in_same_tree_as
in_same_tree_as(s, n, other) == find_root(s, n) = find_root(s, other)

\* AltTreeNode.ancestors: the node and its ancestors, child first
RECURSIVE AncestorsFrom(_, _, _)
AncestorsFrom(s, acc, stop_before) ==
    LET current_node == Last(acc)
    IN  IF s.tree[current_node].inner_region = None
           \/ s.tree[current_node].parent[1].node = stop_before
        THEN acc
        ELSE AncestorsFrom(s, Append(acc, s.tree[current_node].parent[1].node), stop_before)

ancestors(s, n, stop_before) ==
    IF n = stop_before THEN <<>> ELSE AncestorsFrom(s, <<n>>, stop_before)

\* AltTreeNode.most_recent_common_ancestor (None where the code raises)
most_recent_common_ancestor(s, n, other) ==
    LET seen == Range(ancestors(s, n, None))
        up   == ancestors(s, other, None)
    IN  IF \E i \in 1..Len(up) : up[i] \in seen
        THEN up[CHOOSE i \in 1..Len(up) : up[i] \in seen /\ \A j \in 1..(i - 1) : up[j] \notin seen]
        ELSE None

\* A faulty become_root that does not make the parent the root first; C36
\* is tested against it.
become_root_in_one_step(s, n) ==
    IF s.tree[n].inner_region = None
    THEN IF s.tree[n].parent = <<>> THEN s ELSE Fail(s, "AssertionError: become_root")
    ELSE IF s.tree[n].parent = <<>> THEN Fail(s, "AssertionError: become_root")
    ELSE
      LET old_parent == s.tree[n].parent[1].node
      IN  IF s.tree[old_parent].inner_region # None
          THEN Fail(s, "AssertionError: become_root")
          ELSE
            LET s2 == [s EXCEPT !.tree[old_parent].inner_region = s.tree[n].inner_region]
                s3 == [s2 EXCEPT !.tree[old_parent].inner_outer_edge = s2.tree[n].parent[1].edge]
                s4 == [s3 EXCEPT !.tree[n].inner_region = None]
                s5 == [s4 EXCEPT !.tree[old_parent].children = WithoutChild(@, n)]
                s6 == [s5 EXCEPT !.tree[n].parent = <<>>]
            IN  add_child(s6, n, AltTreeEdge(old_parent, s6.tree[n].inner_outer_edge))

\* AltTreeNode.become_root
RECURSIVE become_root(_, _)
become_root(s, n) ==
    IF s.tree[n].inner_region = None
    THEN IF s.tree[n].parent = <<>> THEN s ELSE Fail(s, "AssertionError: become_root")
    ELSE IF s.tree[n].parent = <<>> THEN Fail(s, "AssertionError: become_root")
    ELSE
      LET old_parent == s.tree[n].parent[1].node
          s1 == become_root(s, old_parent)
          p  == s1.tree[n].parent[1].node
      IN  IF s1.tree[p].inner_region # None THEN Fail(s1, "AssertionError: become_root")
          ELSE
            LET s2 == [s1 EXCEPT !.tree[p].inner_region = s1.tree[n].inner_region]
                s3 == [s2 EXCEPT !.tree[p].inner_outer_edge = s2.tree[n].parent[1].edge]
                s4 == [s3 EXCEPT !.tree[n].inner_region = None]
                s5 == [s4 EXCEPT !.tree[p].children = WithoutChild(@, n)]
                s6 == [s5 EXCEPT !.tree[n].parent = <<>>]
            IN  add_child(s6, n, AltTreeEdge(old_parent, s6.tree[n].inner_outer_edge))

\* AltTreeNode.shatter_into_matches: [s, out], out the inner regions matched
RECURSIVE shatter_into_matches(_, _, _)
RECURSIVE ShatterChildren(_, _, _, _)
ShatterChildren(s, children, k, out) ==
    IF k > Len(children) THEN [s |-> s, out |-> out]
    ELSE LET r == shatter_into_matches(s, children[k].node, out)
         IN  ShatterChildren(r.s, children, k + 1, r.out)

shatter_into_matches(s, n, out) ==
    LET t  == s.tree[n]
        s1 == IF t.inner_region # None
              THEN add_match([s EXCEPT !.tree[n].parent = <<>>],
                             t.inner_region, t.outer_region, t.inner_outer_edge)
              ELSE s
        o1 == IF t.inner_region # None THEN Append(out, t.inner_region) ELSE out
        r  == ShatterChildren(s1, t.children, 1, o1)
    IN  [s |-> [r.s EXCEPT !.tree[n].children = <<>>], out |-> r.out]

\* "for child in node.children: orphans.append(child); child.node.parent = None"
RECURSIVE OrphanChildren(_, _, _)
OrphanChildren(s, children, k) ==
    IF k > Len(children) THEN s
    ELSE OrphanChildren([s EXCEPT !.tree[children[k].node].parent = <<>>], children, k + 1)

\* AltTreeNode.prune_upward_path_stopping_before:
\* [s, orphans, pruned_path_regions]
RECURSIVE PrunePath(_, _, _, _, _)
PrunePath(s, path, k, orphans, removed_regions) ==
    IF k > Len(path)
    THEN [s |-> s, orphans |-> orphans, pruned_path_regions |-> removed_regions]
    ELSE
      LET n  == path[k]
          t  == s.tree[n]
          s1 == OrphanChildren(s, t.children, 1)
          r1 == Append(removed_regions,
                       RegionEdge(t.outer_region, EdgeReversed(t.inner_outer_edge)))
          s2 == [s1 EXCEPT !.region[t.outer_region].alt_tree_node = None]
      IN  IF s2.tree[n].parent # <<>>
          THEN LET par == s2.tree[n].parent[1]
                   r2  == Append(r1, RegionEdge(t.inner_region, par.edge))
                   s3  == [s2 EXCEPT !.tree[par.node].children = WithoutChild(@, n)]
                   s4  == [s3 EXCEPT !.tree[n].parent = <<>>]
                   s5  == [s4 EXCEPT !.region[t.inner_region].alt_tree_node = None]
               IN  PrunePath(s5, path, k + 1, orphans \o t.children, r2)
          ELSE PrunePath(s2, path, k + 1, orphans \o t.children, r1)

prune_upward_path_stopping_before(s, n, prune_parent) ==
    PrunePath(s, ancestors(s, n, prune_parent), 1, <<>>, <<>>)

(* ---------------------------------------------------------------------- *)
(* events.py: the events handed to the MWPM state machine.                  *)
(* ---------------------------------------------------------------------- *)
NoEvent ==
    [kind |-> "None", time |-> 0, region1 |-> None, region2 |-> None, edge |-> NoEdge,
     in_parent_region |-> None, in_child_region |-> None]

\* A faulty RegionHitRegionEvent whose __post_init__ swaps the regions and
\* keeps the edge as it was given; C32 is tested against it.
RegionHitRegionEventKeepingEdge(t, r1, r2, edge) ==
    [NoEvent EXCEPT !.kind = "RegionHitRegion", !.time = t,
                    !.region1 = IF r1 > r2 THEN r2 ELSE r1,
                    !.region2 = IF r1 > r2 THEN r1 ELSE r2,
                    !.edge = edge]

\* RegionHitRegionEvent, after __post_init__ (region1 has the smaller id);
\* RegionIdsDiffer is the assertion of __post_init__.
RegionIdsDiffer(r1, r2) == r1 # r2

RegionHitRegionEvent(t, r1, r2, edge) ==
    [NoEvent EXCEPT !.kind = "RegionHitRegion", !.time = t,
                    !.region1 = IF r1 > r2 THEN r2 ELSE r1,
                    !.region2 = IF r1 > r2 THEN r1 ELSE r2,
                    !.edge = IF r1 > r2 THEN EdgeReversed(edge) ELSE edge]

\* RegionHitBoundaryEvent: region1 is its region
RegionHitBoundaryEvent(t, r, edge) ==
    [NoEvent EXCEPT !.kind = "RegionHitBoundary", !.time = t, !.region1 = r, !.edge = edge]

\* BlossomImplodeEvent: region1 is its blossom_region
BlossomImplodeEvent(t, blossom_region, in_parent_region, in_child_region) ==
    [NoEvent EXCEPT !.kind = "BlossomImplode", !.time = t, !.region1 = blossom_region,
                    !.in_parent_region = in_parent_region,
                    !.in_child_region = in_child_region]

(* ---------------------------------------------------------------------- *)
(* mwpm.py                                                                  *)
(* ---------------------------------------------------------------------- *)
\* Mwpm.add_region
add_region(s, r) ==
    LET k == Len(s.tree) + 1
    IN  [s EXCEPT !.tree = Append(@, AltTreeNode(None, r, NoEdge)),
                  !.region[r].alt_tree_node = k]

\* Mwpm.add_detection_event (without the append to detection_events)
add_detection_event(s, n) ==
    LET s1 == create_region(s, n)
    IN  add_region(s1, Len(s1.region))

\* Mwpm._shatter_descendants_into_matches_and_freeze
RECURSIVE FreezeMatched(_, _, _)
FreezeMatched(s, out, k) ==
    IF k > Len(out) THEN s
    ELSE LET s1 == set_region_growth(s, out[k], 0)
         IN  FreezeMatched(set_region_growth(s1, s1.region[out[k]].match[1].region, 0),
                           out, k + 1)

shatter_descendants_into_matches_and_freeze(s, n) ==
    LET r == shatter_into_matches(s, n, <<>>)
    IN  [FreezeMatched(r.s, r.out, 1) EXCEPT !.tree[n].children = <<>>]

\* A faulty handle_tree_hitting_match that leaves the match of the two
\* regions it puts into the tree; C20 is tested against it.
handle_tree_hitting_match_keeping_match(s, e) ==
    LET second     == s.region[e.region2].match # <<>>
        n          == IF second THEN s.region[e.region1].alt_tree_node
                      ELSE s.region[e.region2].alt_tree_node
        match      == IF second THEN e.region2 ELSE e.region1
        child_edge == IF second THEN e.edge ELSE EdgeReversed(e.edge)
        other_match == s.region[match].match[1]
    IN  IF n = None THEN Fail(s, "AttributeError: alt_tree_node is None")
        ELSE
          LET s1 == make_child_inner_outer(s, n, match, other_match.region,
                                           other_match.edge, child_edge)
              s4 == set_region_growth(s1, match, -1)
          IN  set_region_growth(s4, other_match.region, 1)

\* A faulty handle_tree_hitting_match that takes the edge of the event as
\* the child edge whichever of the two regions is the matched one.
handle_tree_hitting_match_edge_as_given(s, e) ==
    LET second     == s.region[e.region2].match # <<>>
        n          == IF second THEN s.region[e.region1].alt_tree_node
                      ELSE s.region[e.region2].alt_tree_node
        match      == IF second THEN e.region2 ELSE e.region1
        other_match == s.region[match].match[1]
    IN  IF n = None THEN Fail(s, "AttributeError: alt_tree_node is None")
        ELSE
          LET s1 == make_child_inner_outer(s, n, match, other_match.region,
                                           other_match.edge, e.edge)
              s2 == [s1 EXCEPT !.region[match].match = <<>>]
              s3 == [s2 EXCEPT !.region[other_match.region].match = <<>>]
              s4 == set_region_growth(s3, match, -1)
          IN  set_region_growth(s4, other_match.region, 1)

\* Mwpm.handle_tree_hitting_match
handle_tree_hitting_match(s, e) ==
    LET second     == s.region[e.region2].match # <<>>
        n          == IF second THEN s.region[e.region1].alt_tree_node
                      ELSE s.region[e.region2].alt_tree_node
        match      == IF second THEN e.region2 ELSE e.region1
        child_edge == IF second THEN e.edge ELSE EdgeReversed(e.edge)
        other_match == s.region[match].match[1]
    IN  IF n = None THEN Fail(s, "AttributeError: alt_tree_node is None")
        ELSE
          LET s1 == make_child_inner_outer(s, n, match, other_match.region,
                                           other_match.edge, child_edge)
              s2 == [s1 EXCEPT !.region[match].match = <<>>]
              s3 == [s2 EXCEPT !.region[other_match.region].match = <<>>]
              s4 == set_region_growth(s3, match, -1)
          IN  set_region_growth(s4, other_match.region, 1)

\* A faulty handle_tree_hitting_boundary that does not re-root the tree at
\* the node that hit the boundary.
handle_tree_hitting_boundary_as_rooted(s, e) ==
    LET n == s.region[e.region1].alt_tree_node
    IN  IF n = None THEN Fail(s, "AttributeError: alt_tree_node is None")
        ELSE IF s.tree[n].outer_region # e.region1
        THEN Fail(s, "AssertionError: handle_tree_hitting_boundary")
        ELSE
          LET s1 == [s  EXCEPT !.region[e.region1].match = <<Match(None, e.edge)>>]
              s2 == [s1 EXCEPT !.region[e.region1].alt_tree_node = None]
              s3 == set_region_growth(s2, s2.tree[n].outer_region, 0)
          IN  shatter_descendants_into_matches_and_freeze(s3, n)

\* Mwpm.handle_tree_hitting_boundary
handle_tree_hitting_boundary(s, e) ==
    LET n == s.region[e.region1].alt_tree_node
    IN  IF n = None THEN Fail(s, "AttributeError: alt_tree_node is None")
        ELSE IF s.tree[n].outer_region # e.region1
        THEN Fail(s, "AssertionError: handle_tree_hitting_boundary")
        ELSE
          LET s1 == [s  EXCEPT !.region[e.region1].match = <<Match(None, e.edge)>>]
              s2 == [s1 EXCEPT !.region[e.region1].alt_tree_node = None]
              s3 == set_region_growth(s2, s2.tree[n].outer_region, 0)
              s4 == become_root(s3, n)
          IN  shatter_descendants_into_matches_and_freeze(s4, n)

\* Mwpm.handle_tree_hitting_boundary_match
handle_tree_hitting_boundary_match(s, e) ==
    LET swap       == is_matched_to_boundary(s, e.region1)
        incoming   == IF swap THEN e.region2 ELSE e.region1
        squished   == IF swap THEN e.region1 ELSE e.region2
        match_edge == IF swap THEN EdgeReversed(e.edge) ELSE e.edge
        n          == s.region[incoming].alt_tree_node
    IN  IF is_matched_to_boundary(s, incoming)
        THEN Fail(s, "AssertionError: handle_tree_hitting_boundary_match")
        ELSE IF n = None THEN Fail(s, "AttributeError: alt_tree_node is None")
        ELSE
          LET s1 == add_match(s, incoming, squished, match_edge)
              s2 == set_region_growth(s1, s1.tree[n].outer_region, 0)
              s3 == become_root(s2, n)
          IN  shatter_descendants_into_matches_and_freeze(s3, n)

RECURSIVE AddOrphans(_, _, _, _)
AddOrphans(s, n, orphans, k) ==
    IF k > Len(orphans) THEN s
    ELSE AddOrphans(add_child(s, n, orphans[k]), n, orphans, k + 1)

\* The region cycle handle_tree_hitting_self passes to create_blossom.
BlossomRegionCycle(e, p1, p2, common_ancestor_outer) ==
    LET region1_to_region2   == RegionEdge(e.region1, e.edge)
        common_ancestor_edge == RegionEdge(common_ancestor_outer, NoEdge)
        region1_to_ancestor_via_region2 ==
            <<region1_to_region2>> \o p2.pruned_path_regions \o <<common_ancestor_edge>>
    IN  p1.pruned_path_regions \o Front(PathReversed(region1_to_ancestor_via_region2))

\* Mwpm.handle_tree_hitting_self up to the create_blossom call:
\* [s, cycle, orphans, common_ancestor], s and cycle the arguments of the call.
BlossomCall(p1, p2, e, common_ancestor) ==
    [s |-> [OrphanChildren(p2.s, p2.s.tree[common_ancestor].children, 1)
                EXCEPT !.tree[common_ancestor].children = <<>>],
     cycle |-> BlossomRegionCycle(e, p1, p2, p2.s.tree[common_ancestor].outer_region),
     orphans |-> p2.s.tree[common_ancestor].children \o p1.orphans \o p2.orphans,
     common_ancestor |-> common_ancestor]

PruneSecond(p1, s, e, common_ancestor) ==
    BlossomCall(p1,
                prune_upward_path_stopping_before(
                    p1.s, s.region[e.region2].alt_tree_node, common_ancestor),
                e, common_ancestor)

BlossomArgs(s, e, common_ancestor) ==
    PruneSecond(prune_upward_path_stopping_before(
                    s, s.region[e.region1].alt_tree_node, common_ancestor),
                s, e, common_ancestor)

\* A faulty end of handle_tree_hitting_self that does not hang the orphans
\* below the node of the blossom.
AdoptBlossomWithoutOrphans(s, call) ==
    [s EXCEPT !.tree[call.common_ancestor].outer_region = Len(s.region),
              !.region[Len(s.region)].alt_tree_node = call.common_ancestor]

\* Mwpm.handle_tree_hitting_self after the create_blossom call
AdoptBlossom(s, call) ==
    AddOrphans([s EXCEPT !.tree[call.common_ancestor].outer_region = Len(s.region),
                         !.region[Len(s.region)].alt_tree_node = call.common_ancestor],
               call.common_ancestor, call.orphans, 1)

CreateBlossomFor(call) == AdoptBlossom(create_blossom(call.s, call.cycle), call)

CommonAncestor(s, e) ==
    most_recent_common_ancestor(s, s.region[e.region1].alt_tree_node,
                                s.region[e.region2].alt_tree_node)

\* Mwpm.handle_tree_hitting_self
handle_tree_hitting_self(s, e) ==
    IF CommonAncestor(s, e) = None THEN Fail(s, "ValueError: No common ancestor")
    ELSE CreateBlossomFor(BlossomArgs(s, e, CommonAncestor(s, e)))

\* A faulty handle_tree_hitting_other_tree that does not re-root the two
\* trees at the colliding nodes.
handle_tree_hitting_other_tree_as_rooted(s, e) ==
    LET region1 == s.region[e.region1].alt_tree_node
        region2 == s.region[e.region2].alt_tree_node
        s3 == add_match(s, e.region1, e.region2, e.edge)
        s4 == set_region_growth(s3, e.region1, 0)
        s5 == set_region_growth(s4, e.region2, 0)
        s6 == shatter_descendants_into_matches_and_freeze(s5, region1)
    IN  shatter_descendants_into_matches_and_freeze(s6, region2)

\* Mwpm.handle_tree_hitting_other_tree
handle_tree_hitting_other_tree(s, e) ==
    LET region1 == s.region[e.region1].alt_tree_node
        region2 == s.region[e.region2].alt_tree_node
        s1 == become_root(s, region1)
        s2 == become_root(s1, region2)
        s3 == add_match(s2, e.region1, e.region2, e.edge)
        s4 == set_region_growth(s3, e.region1, 0)
        s5 == set_region_growth(s4, e.region2, 0)
        s6 == shatter_descendants_into_matches_and_freeze(s5, region1)
    IN  shatter_descendants_into_matches_and_freeze(s6, region2)

\* "for match_region in matches.pairs_matched(): ..." of
\* handle_blossom_imploding (pairs_matched is a generator: each add_match
\* runs just before the two calls for its pair).
RECURSIVE MatchAndFreezePairs(_, _, _)
MatchAndFreezePairs(s, edges, k) ==
    IF k > Len(edges) THEN s
    ELSE LET a  == edges[k].region
             s1 == add_match(s, a, edges[k + 1].region, edges[k].edge)
             s2 == set_region_growth(s1, a, 0)
             s3 == set_region_growth(s2, s2.region[a].match[1].region, 0)
         IN  MatchAndFreezePairs(s3, edges, k + 2)

\* "for k in range(0, len(odds) - 1, 2): ..." of handle_blossom_imploding:
\* [s, cur_alt_tree_node, child_edge]; k is 1-based here.
RECURSIVE SpliceOdds(_, _, _, _, _)
SpliceOdds(s, odds, k, cur_alt_tree_node, child_edge) ==
    IF k > Len(odds) - 1
    THEN [s |-> s, cur_alt_tree_node |-> cur_alt_tree_node, child_edge |-> child_edge]
    ELSE LET s1 == make_child_inner_outer(s, cur_alt_tree_node, odds[k].region,
                                          odds[k + 1].region, odds[k].edge, child_edge)
             c  == Len(s1.tree)
             s2 == set_region_growth(s1, s1.tree[c].inner_region, -1)
             s3 == set_region_growth(s2, s2.tree[c].outer_region, 1)
         IN  SpliceOdds(s3, odds, k + 2, c, odds[k + 1].edge)

\* A faulty end of handle_blossom_imploding that leaves the new inner region
\* of the blossom's node frozen.
ImplodeWithoutShrink(s, blossom_io_node) == s

\* Mwpm.handle_blossom_imploding, last statement
ImplodeShrink(s, blossom_io_node) ==
    set_region_growth(s, s.tree[blossom_io_node].inner_region, -1)

\* Mwpm.handle_blossom_imploding: the blossom's node takes the last region
\* of the odd path as its inner region and hangs below the spliced nodes.
ImplodeAttach(sp, blossom_io_node, last_region) ==
    ImplodeShrink(
        add_child([sp.s EXCEPT !.tree[blossom_io_node].inner_region = last_region,
                               !.region[last_region].alt_tree_node = blossom_io_node,
                               !.tree[blossom_io_node].parent = <<>>],
                  sp.cur_alt_tree_node,
                  AltTreeEdge(blossom_io_node, sp.child_edge)),
        blossom_io_node)

\* Mwpm.handle_blossom_imploding: the node is taken off its parent and the
\* odd path is spliced in below that parent.
ImplodeSplice(s, blossom_io_node, odds) ==
    ImplodeAttach(
        SpliceOdds([s EXCEPT !.tree[s.tree[blossom_io_node].parent[1].node].children =
                                 WithoutChild(@, blossom_io_node)],
                   odds, 1, s.tree[blossom_io_node].parent[1].node,
                   EdgeReversed(s.tree[blossom_io_node].parent[1].edge)),
        blossom_io_node, Last(odds).region)

\* Mwpm.handle_blossom_imploding: split is <<odds, matches>>
ImplodeSplit(s, blossom_io_node, split) ==
    ImplodeSplice(MatchAndFreezePairs(s, split[2], 1), blossom_io_node, split[1])

\* Mwpm.handle_blossom_imploding
handle_blossom_imploding(s, e) ==
    IF s.region[e.region1].alt_tree_node = None
    THEN Fail(s, "AttributeError: alt_tree_node is None")
    ELSE IF s.tree[s.region[e.region1].alt_tree_node].inner_region # e.region1
    THEN Fail(s, "AssertionError: handle_blossom_imploding")
    ELSE ImplodeSplit([s EXCEPT !.region[e.region1].alt_tree_node = None],
                      s.region[e.region1].alt_tree_node,
                      split_between_regions(s.region[e.region1].blossom_children,
                                            e.in_parent_region, e.in_child_region))

\* The branch process_event takes.
Handler(s, e) ==
    IF e.kind = "BlossomImplode" THEN "blossom_imploding"
    ELSE IF e.kind = "RegionHitBoundary" THEN "tree_hitting_boundary"
    ELSE IF matched_to_region(s, e.region1) \/ matched_to_region(s, e.region2)
    THEN "tree_hitting_match"
    ELSE IF is_matched_to_boundary(s, e.region1) \/ is_matched_to_boundary(s, e.region2)
    THEN "tree_hitting_boundary_match"
    ELSE IF s.region[e.region1].alt_tree_node = None \/ s.region[e.region2].alt_tree_node = None
    THEN "AttributeError"
    ELSE IF in_same_tree_as(s, s.region[e.region1].alt_tree_node, s.region[e.region2].alt_tree_node)
    THEN "tree_hitting_self"
    ELSE "tree_hitting_other_tree"

(* ---------------------------------------------------------------------- *)
(* graph_flooder.py: the effects of the tentative events.                   *)
(* ---------------------------------------------------------------------- *)
\* A faulty _do_neighbor_interaction whose collision edge leaves out the
\* weight of the graph edge between the two nodes; C38 is tested against it.
do_neighbor_interaction_without_weight(s, x) ==
    LET a1 == x.location_data_1
        a2 == x.location_data_2
        \* "if loc_data_2 is owned and loc_data_1 is not: swap"
        swap == a2 # None /\ s.node[a2].region_that_arrived # None
                          /\ s.node[a1].region_that_arrived = None
        n1 == IF swap THEN a2 ELSE a1
        i1 == IF swap THEN x.schedule_list_index_2 ELSE x.schedule_list_index_1
        n2 == IF swap THEN a1 ELSE a2
        d1 == s.node[n1]
        w  == graph.nodes[n1].distances[i1]
        o  == graph.nodes[n1].observables[i1]
    IN  IF d1.region_that_arrived = None
        THEN [s |-> Fail(s, "AssertionError: _do_neighbor_interaction"), mwpm_event |-> NoEvent]
        ELSE IF n2 = None
        THEN \* the region reaches the boundary through slot i1
             [s |-> s,
              mwpm_event |-> RegionHitBoundaryEvent(s.time, NodeTopRegion(s, n1),
                    CompressedEdge(d1.reached_from_source,
                                   graph.nodes[n1].neighbors_with_boundary[i1],
                                   Xor(d1.observables_crossed, o),
                                   d1.distance_from_source + w))]
        ELSE IF has_same_owner_as(s, n1, n2)
        THEN [s |-> Fail(s, "AssertionError: _do_neighbor_interaction"), mwpm_event |-> NoEvent]
        ELSE IF s.node[n2].region_that_arrived = None
        THEN \* one region spreading into an empty location
             LET r == NodeTopRegion(s, n1)
             IN  IF s.region[r].radius.slope <= 0
                 THEN [s |-> Fail(s, "AssertionError: _do_region_arriving_at_empty_location"),
                       mwpm_event |-> NoEvent]
                 ELSE [s |-> do_region_arriving_at_empty_location(
                                 s, r, n2, d1.reached_from_source,
                                 d1.distance_from_source + w,
                                 Xor(d1.observables_crossed, o)),
                       mwpm_event |-> NoEvent]
        ELSE \* two regions colliding
             LET d2 == s.node[n2]
             IN  [s |-> s,
                  mwpm_event |-> RegionHitRegionEvent(s.time,
                        NodeTopRegion(s, n1), NodeTopRegion(s, n2),
                        CompressedEdge(d1.reached_from_source, d2.reached_from_source,
                            Xor(Xor(d1.observables_crossed, d2.observables_crossed), o),
                            d1.distance_from_source + d2.distance_from_source))]

\* GraphFlooder._do_neighbor_interaction: [s, mwpm_event]
do_neighbor_interaction(s, x) ==
    LET a1 == x.location_data_1
        a2 == x.location_data_2
        \* "if loc_data_2 is owned and loc_data_1 is not: swap"
        swap == a2 # None /\ s.node[a2].region_that_arrived # None
                          /\ s.node[a1].region_that_arrived = None
        n1 == IF swap THEN a2 ELSE a1
        i1 == IF swap THEN x.schedule_list_index_2 ELSE x.schedule_list_index_1
        n2 == IF swap THEN a1 ELSE a2
        d1 == s.node[n1]
        w  == graph.nodes[n1].distances[i1]
        o  == graph.nodes[n1].observables[i1]
    IN  IF d1.region_that_arrived = None
        THEN [s |-> Fail(s, "AssertionError: _do_neighbor_interaction"), mwpm_event |-> NoEvent]
        ELSE IF n2 = None
        THEN \* the region reaches the boundary through slot i1
             [s |-> s,
              mwpm_event |-> RegionHitBoundaryEvent(s.time, NodeTopRegion(s, n1),
                    CompressedEdge(d1.reached_from_source,
                                   graph.nodes[n1].neighbors_with_boundary[i1],
                                   Xor(d1.observables_crossed, o),
                                   d1.distance_from_source + w))]
        ELSE IF has_same_owner_as(s, n1, n2)
        THEN [s |-> Fail(s, "AssertionError: _do_neighbor_interaction"), mwpm_event |-> NoEvent]
        ELSE IF s.node[n2].region_that_arrived = None
        THEN \* one region spreading into an empty location
             LET r == NodeTopRegion(s, n1)
             IN  IF s.region[r].radius.slope <= 0
                 THEN [s |-> Fail(s, "AssertionError: _do_region_arriving_at_empty_location"),
                       mwpm_event |-> NoEvent]
                 ELSE [s |-> do_region_arriving_at_empty_location(
                                 s, r, n2, d1.reached_from_source,
                                 d1.distance_from_source + w,
                                 Xor(d1.observables_crossed, o)),
                       mwpm_event |-> NoEvent]
        ELSE \* two regions colliding
             LET d2 == s.node[n2]
             IN  [s |-> s,
                  mwpm_event |-> RegionHitRegionEvent(s.time,
                        NodeTopRegion(s, n1), NodeTopRegion(s, n2),
                        CompressedEdge(d1.reached_from_source, d2.reached_from_source,
                            Xor(Xor(d1.observables_crossed, d2.observables_crossed), o),
                            d1.distance_from_source + d2.distance_from_source + w))]

\* GraphFlooder._do_region_leaving_location: the last node of the shell is
\* given up, its neighbourhood and the region's next shrink are scheduled.
do_region_leaving_location(s, r) ==
    LET n  == Last(s.region[r].shell_area)
        s1 == [s EXCEPT !.region[r].shell_area = Front(@),
                        !.node[n].observables_crossed = 0,
                        !.node[n].reached_from_source = None,
                        !.node[n].distance_from_source = NoDistance,
                        !.node[n].region_that_arrived = None]
        s2 == reschedule_events_at_location(s1, n)
    IN  ScheduleNextShrink(s2, r)

\* The child of blossom r that holds node n once the children are detached.
RECURSIVE ChildHolding(_, _, _)
ChildHolding(s, r, c) ==
    IF c = None THEN None
    ELSE IF s.region[c].blossom_parent = r THEN c
    ELSE ChildHolding(s, r, s.region[c].blossom_parent)

\* GraphFlooder._explode_region: the children become top-level regions
RECURSIVE DetachChildren(_, _, _)
DetachChildren(s, children, k) ==
    IF k > Len(children) THEN s
    ELSE DetachChildren([s EXCEPT !.region[children[k].region].blossom_parent = None],
                        children, k + 1)

\* GraphFlooder._do_implosion: [s, mwpm_event] for a shrinking region whose
\* source is about to leave (degenerate collision) or for a blossom that
\* has no node of its own left.
do_implosion(s, r) ==
    LET reg == s.region[r]
        n   == reg.alt_tree_node
    IN  IF VCall(reg.radius, s.time) # 0 \/ reg.radius.slope >= 0
        THEN [s |-> Fail(s, "AssertionError: _do_implosion"), mwpm_event |-> NoEvent]
        ELSE IF n = None
        THEN [s |-> Fail(s, "AttributeError: alt_tree_node is None"), mwpm_event |-> NoEvent]
        ELSE IF s.tree[n].parent = <<>>
        THEN [s |-> Fail(s, "AttributeError: parent is None"), mwpm_event |-> NoEvent]
        ELSE
          LET par == s.tree[n].parent[1]
              ioe == s.tree[n].inner_outer_edge
          IN  IF reg.blossom_children = <<>>
              THEN \* degenerate collision: the region stays in place
                   IF ~Mergeable(EdgeReversed(par.edge), ioe)
                   THEN [s |-> Fail(s, "ValueError: merged_with"), mwpm_event |-> NoEvent]
                   ELSE IF ~RegionIdsDiffer(s.tree[par.node].outer_region, s.tree[n].outer_region)
                   THEN [s |-> Fail(s, "AssertionError: RegionHitRegionEvent"),
                         mwpm_event |-> NoEvent]
                   ELSE [s |-> s,
                         mwpm_event |-> RegionHitRegionEvent(s.time,
                              s.tree[par.node].outer_region, s.tree[n].outer_region,
                              merged_with(EdgeReversed(par.edge), ioe))]
              ELSE LET in_parent_region ==
                           ChildHolding(s, r, s.node[par.edge.loc_from].region_that_arrived)
                       in_child_region ==
                           ChildHolding(s, r, s.node[ioe.loc_from].region_that_arrived)
                   IN  [s |-> DetachChildren(s, reg.blossom_children, 1),
                        mwpm_event |-> BlossomImplodeEvent(s.time, r, in_parent_region,
                                                           in_child_region)]

\* The effect of a region shrink event.
do_region_shrinking(s, r) ==
    LET shell == s.region[r].shell_area
    IN  IF s.region[r].radius.slope >= 0
        THEN [s |-> Fail(s, "AssertionError: _do_region_leaving_location"),
              mwpm_event |-> NoEvent]
        ELSE IF Len(shell) > 0 /\ Last(shell) # s.region[r].source
        THEN [s |-> do_region_leaving_location(s, r), mwpm_event |-> NoEvent]
        ELSE do_implosion(s, r)

(* ---------------------------------------------------------------------- *)
(* graph_fill_region.py and mwpm.py: extracting the matching.               *)
(* ---------------------------------------------------------------------- *)
\* A faulty cleanup_shell_area that leaves the nodes of the shell as they
\* are; C15 is tested against it.
keep_shell_area(s, r) == s

\* GraphFillRegion.cleanup_shell_area
RECURSIVE CleanupNodes(_, _, _)
CleanupNodes(s, shell, k) ==
    IF k > Len(shell) THEN s
    ELSE CleanupNodes([s EXCEPT !.node[shell[k]] = CleanNode(NumNeighbors(shell[k]))],
                      shell, k + 1)

cleanup_shell_area(s, r) == CleanupNodes(s, s.region[r].shell_area, 1)

\* GraphFillRegion.shatter_into_matches_and_region: [s, matches, region]
shatter_into_matches_and_region(s, r, exclude_location) ==
    LET children == s.region[r].blossom_children
        s1 == cleanup_shell_area(s, r)
        s2 == DetachChildren(s1, children, 1)
        exclude_subblossom == IF exclude_location = None THEN None
                              ELSE NodeTopRegion(s2, exclude_location)
    IN  IF exclude_location = None
        THEN [s |-> Fail(s2, "AttributeError: top_region"), matches |-> <<>>, region |-> None]
        ELSE IF exclude_subblossom = None
        THEN [s |-> Fail(s2, "ValueError: Region cannot be None"),
              matches |-> <<>>, region |-> None]
        ELSE IF \A i \in 1..Len(children) : children[i].region # exclude_subblossom
        THEN [s |-> Fail(s2, "ValueError: Region not in path"),
              matches |-> <<>>, region |-> None]
        ELSE LET remaining_regions == split_at_region(children, exclude_subblossom)
                 s3 == [s2 EXCEPT !.region[r].blossom_children = <<>>]
             IN  [s |-> pairs_matched(s3, remaining_regions),
                  matches |-> PairsMatchedRegions(remaining_regions),
                  region |-> exclude_subblossom]

\* GraphFillRegion.to_subblossom_matches with max_depth=None: [s, out].
\* A Match object shared by a shattered blossom and the child that inherits
\* it is copied here; the copy left on the shattered blossom is not read again.
RECURSIVE to_subblossom_matches(_, _)
RECURSIVE SubblossomMatchesOfEach(_, _, _, _)
\* "out.extend(m for match in matches for m in match.to_subblossom_matches())"
SubblossomMatchesAfter(t, matches, k, out) ==
    SubblossomMatchesOfEach(t.s, matches, k + 1, out \o t.out)

SubblossomMatchesOfEach(s, matches, k, out) ==
    IF k > Len(matches) \/ s.err # "" THEN [s |-> s, out |-> out]
    ELSE SubblossomMatchesAfter(to_subblossom_matches(s, matches[k]), matches, k, out)

\* "region_1.match = self.match"
AdoptMatch(s, from, to) == [s EXCEPT !.region[to].match = s.region[from].match]

\* A faulty "r.match.region = target" that leaves the peer pointing at the
\* shattered blossom; C35 is tested against it.
PointMatchAtBlossom(s, r, target) == s

\* "r.match.region = target" (skipped when r is None)
PointMatchAt(s, r, target) ==
    IF r = None THEN s ELSE [s EXCEPT !.region[r].match[1].region = target]

WithThisRegion(rec, this_region) ==
    [s |-> rec.s, this_region |-> this_region, out |-> rec.out]

\* The "if children_here:" branch, sh the result of the shatter of r.
ShatterHere(sh, r, match_region) ==
    IF sh.s.err # "" THEN [s |-> sh.s, this_region |-> r, out |-> <<>>]
    ELSE WithThisRegion(
             SubblossomMatchesOfEach(
                 PointMatchAt(AdoptMatch(sh.s, r, sh.region), match_region, sh.region),
                 sh.matches, 1, <<>>),
             sh.region)

\* The "if children_there:" branch, sh the result of the shatter of match_region.
ShatterThere(sh, here, match_region) ==
    IF sh.s.err # "" THEN [s |-> sh.s, out |-> here.out]
    ELSE SubblossomMatchesOfEach(
             PointMatchAt(AdoptMatch(sh.s, match_region, sh.region),
                          here.this_region, sh.region),
             sh.matches, 1, here.out)

SubblossomThere(here, match_region, children_there) ==
    IF children_there /\ here.s.err = ""
    THEN ShatterThere(
             shatter_into_matches_and_region(
                 here.s, match_region,
                 here.s.region[here.this_region].match[1].edge.loc_to),
             here, match_region)
    ELSE [s |-> here.s, out |-> here.out]

\* A faulty "out.extend(...)" that drops the matches it is given; C2 is
\* tested against it.
DropOut(out, final) == [s |-> final.s, out |-> out]

AppendOut(out, final) == [s |-> final.s, out |-> out \o final.out]

\* "out.extend(m for m in this_region.to_subblossom_matches())"
SubblossomFinish(there, this_region) ==
    AppendOut(there.out, to_subblossom_matches(there.s, this_region))

SubblossomFrom(here, match_region, children_there) ==
    SubblossomFinish(SubblossomThere(here, match_region, children_there), here.this_region)

SubblossomSplit(s, r, match_region, children_here, children_there) ==
    IF ~children_here /\ ~children_there
    THEN [s |-> IF match_region # None
                THEN cleanup_shell_area(cleanup_shell_area(s, r), match_region)
                ELSE cleanup_shell_area(s, r),
          out |-> <<r>>]
    ELSE SubblossomFrom(
             IF children_here
             THEN ShatterHere(
                      shatter_into_matches_and_region(
                          s, r, s.region[r].match[1].edge.loc_from),
                      r, match_region)
             ELSE [s |-> s, this_region |-> r, out |-> <<>>],
             match_region, children_there)

to_subblossom_matches(s, r) ==
    IF s.err # "" THEN [s |-> s, out |-> <<>>]
    ELSE IF s.region[r].match = <<>>
    THEN [s |-> Fail(s, "AttributeError: match is None"), out |-> <<>>]
    ELSE SubblossomSplit(
             s, r, s.region[r].match[1].region,
             s.region[r].blossom_children # <<>>,
             IF s.region[r].match[1].region = None THEN FALSE
             ELSE s.region[s.region[r].match[1].region].blossom_children # <<>>)

\* The MatchingResult fields accumulated by extract_matching_and_reset_graph.
NoResult ==
    [match_edges |-> <<>>, total_weight |-> 0, obs_mask |-> 0, predicted_observables |-> <<>>]

RECURSIVE AppendMatchEdges(_, _, _, _)
AppendMatchEdges(s, out, k, res) ==
    IF k > Len(out) THEN res
    ELSE LET e == s.region[out[k]].match[1].edge
         IN  AppendMatchEdges(s, out, k + 1,
                 [match_edges  |-> Append(res.match_edges, e),
                  total_weight |-> res.total_weight + e.distance,
                  obs_mask     |-> Xor(res.obs_mask, e.obs_mask)])

\* Mwpm.extract_matching_and_reset_graph: [s, res]
RECURSIVE ExtractFrom(_, _, _, _)
\* "for m in r.to_subblossom_matches(): match_list.append(m.match.edge) ..."
ExtractMatches(t, ds, k, res) ==
    IF t.s.err # "" THEN [s |-> t.s, res |-> res]
    ELSE ExtractFrom(t.s, ds, k + 1, AppendMatchEdges(t.s, t.out, 1, res))

\* A faulty extraction that passes over a region without a match instead of
\* failing; C16 is tested against it.
ExtractFromMatchedOnly(s, ds, k, res) ==
    IF k > Len(ds) \/ s.err # "" THEN [s |-> s, res |-> res]
    ELSE IF NodeTopRegion(s, ds[k]) = None THEN ExtractFrom(s, ds, k + 1, res)
    ELSE IF s.region[NodeTopRegion(s, ds[k])].match = <<>>
    THEN ExtractFrom(s, ds, k + 1, res)
    ELSE ExtractMatches(to_subblossom_matches(s, NodeTopRegion(s, ds[k])), ds, k, res)

ExtractFrom(s, ds, k, res) ==
    IF k > Len(ds) \/ s.err # "" THEN [s |-> s, res |-> res]
    ELSE IF NodeTopRegion(s, ds[k]) = None THEN ExtractFrom(s, ds, k + 1, res)
    ELSE IF s.region[NodeTopRegion(s, ds[k])].match = <<>>
    THEN [s |-> Fail(s, "AssertionError: extract_matching_and_reset_graph"), res |-> res]
    ELSE ExtractMatches(to_subblossom_matches(s, NodeTopRegion(s, ds[k])), ds, k, res)

extract_matching_and_reset_graph(s, ds) == ExtractFrom(s, ds, 1, NoResult)

(* ---------------------------------------------------------------------- *)
(* exposed.py: Matching.decode_from_event_locations on a family of graphs.  *)
(* ---------------------------------------------------------------------- *)
\* int_to_binary_array: the bits of n, least significant first, padded with
\* zeros to num_bits entries.
RECURSIVE BitsOf(_)
BitsOf(n) == IF n < 2 THEN <<n>> ELSE <<n % 2>> \o BitsOf(n \div 2)

int_to_binary_array(n, num_bits) ==
    LET obs_list == BitsOf(n)
    IN  IF Len(obs_list) >= num_bits THEN obs_list
        ELSE obs_list \o [i \in 1..(num_bits - Len(obs_list)) |-> 0]

\* An edge handed to the graph: <<u, v, weight, observables>>, v = None for
\* a boundary edge.
RECURSIVE BuildGraph(_, _, _)
BuildGraph(g, edges, k) ==
    IF k > Len(edges) THEN g
    ELSE LET e == edges[k]
         IN  BuildGraph(IF e[2] = None THEN add_boundary_edge(g, e[1], e[3], e[4])
                        ELSE add_edge(g, e[1], e[2], e[3], e[4]),
                        edges, k + 1)

\* The shapes of the graphs decoded: a line with both ends on the boundary, a
\* path on which a blossom forms and implodes before its far end reaches
\* the boundary, a triangle with a tail to
\* the boundary, a square with a diagonal, a path without boundary that has
\* an edge of weight 0, and a pentagon with a tail to the boundary.
Shapes ==
    << << <<1, None, 2, 1>>, <<1, 2, 1, 0>>, <<2, 3, 2, 2>>, <<3, 4, 1, 0>>,
          <<4, 5, 1, 1>>, <<5, None, 2, 0>> >>,
       << <<1, 2, 5, 1>>, <<2, 3, 1, 0>>, <<3, 4, 2, 2>>, <<4, 5, 5, 0>>,
          <<1, None, 7, 1>> >>,
       << <<1, 2, 2, 0>>, <<2, 3, 2, 1>>, <<1, 3, 2, 0>>, <<3, 4, 3, 2>>,
          <<4, 5, 1, 0>>, <<5, None, 1, 3>> >>,
       << <<1, 2, 1, 0>>, <<2, 3, 2, 1>>, <<3, 4, 1, 0>>, <<4, 1, 2, 2>>,
          <<1, 3, 2, 0>>, <<2, None, 3, 1>> >>,
       << <<1, 2, 1, 0>>, <<2, 3, 1, 1>>, <<3, 4, 0, 0>>, <<4, 5, 1, 2>>,
          <<5, 6, 1, 0>> >>,
       << <<1, 2, 2, 0>>, <<2, 3, 2, 1>>, <<3, 4, 2, 0>>, <<4, 5, 2, 2>>,
          <<5, 1, 2, 0>>, <<1, 6, 3, 1>>, <<6, None, 1, 0>> >>,
       << <<1, 2, 2, 0>>, <<2, 3, 2, 1>>, <<1, 3, 2, 0>>, <<1, 4, 4, 2>>,
          <<2, 5, 4, 0>>, <<4, 5, 5, 1>> >>,
       << <<1, 2, 2, 0>>, <<2, 3, 2, 1>>, <<1, 3, 2, 0>>, <<1, 4, 4, 2>>,
          <<1, 5, 6, 0>>, <<5, None, 9, 1>> >> >>

\* A shape with `stretch` added to the weight of its k-th edge.
Stretched(shape, k, stretch) ==
    [i \in 1..Len(shape) |->
        IF i = k THEN <<shape[i][1], shape[i][2], shape[i][3] + stretch, shape[i][4]>>
        ELSE shape[i]]

\* The edges of a shape that are stretched: every other one.
StretchedEdges(shape) == {k \in 1..Len(shape) : k % 2 = 1}

Graphs ==
    UNION {{BuildGraph(EmptyGraph, Stretched(Shapes[j], k, stretch), 1) :
               k \in StretchedEdges(Shapes[j]), stretch \in 0..MaxStretch} :
           j \in 1..Len(Shapes)}

\* The detection events of a set, in increasing order of location.
RECURSIVE Ascending(_)
Ascending(S) ==
    IF S = {} THEN <<>>
    ELSE LET m == CHOOSE x \in S : \A y \in S : x <= y
         IN  <<m>> \o Ascending(S \ {m})

Reversed(q) == [i \in 1..Len(q) |-> q[Len(q) + 1 - i]]

Syndromes(g) == {S \in SUBSET (1..Len(g.nodes)) : Cardinality(S) <= MaxEvents}

NoApplied == [event_id |-> None, time |-> 0]

Init ==
    /\ graph \in Graphs
    /\ syndrome \in Syndromes(graph)
    /\ pending \in {Ascending(syndrome), Reversed(Ascending(syndrome))}
    /\ node = [n \in 1..Len(graph.nodes) |-> CleanNode(Len(graph.nodes[n].neighbors))]
    /\ region = <<>>
    /\ tree = <<>>
    /\ events = <<>>
    /\ heap = <<>>
    /\ time = 0
    /\ err = ""
    /\ detection_events = <<>>
    /\ pc = "add"
    /\ event = NoEvent
    /\ applied = NoApplied
    /\ result = NoResult
    /\ stale = {}

\* The mutable objects take the values of the threaded state s.
Commit(s) ==
    /\ node' = s.node
    /\ region' = s.region
    /\ tree' = s.tree
    /\ events' = s.events
    /\ heap' = s.heap
    /\ time' = s.time
    /\ err' = s.err
    /\ stale' = s.stale

\* "for d in detection_events: self.mwpm.add_detection_event(d)", one turn;
\* the loop is left for the first next_event call when nothing is pending.
AddDetectionEvent ==
    /\ pc = "add"
    /\ IF pending = <<>>
       THEN /\ pc' = "next"
            /\ UNCHANGED <<node, region, tree, events, heap, time, err, stale,
                           detection_events, pending>>
       ELSE LET s == add_detection_event(State, Head(pending))
            IN  /\ Commit(s)
                /\ detection_events' = Append(detection_events, Head(pending))
                /\ pending' = Tail(pending)
                /\ pc' = IF s.err # "" THEN "error" ELSE "add"
    /\ UNCHANGED <<graph, syndrome, event, applied, result>>

\* GraphFlooder.next_event: the schedule is empty, None is returned.
NextEventNone ==
    /\ pc = "next"
    /\ heap = <<>>
    /\ pc' = "extract"
    /\ event' = NoEvent
    /\ applied' = NoApplied
    /\ UNCHANGED <<graph, syndrome, node, region, tree, events, heap, time, err, stale,
                   detection_events, pending, result>>

\* GraphFlooder.next_event: an invalidated event is popped and discarded.
NextEventSkipInvalidated ==
    /\ pc = "next"
    /\ heap # <<>>
    /\ events[HeapTop(heap)].is_invalidated
    /\ heap' = heappop(events, heap)
    /\ applied' = NoApplied
    /\ UNCHANGED <<graph, syndrome, node, region, tree, events, time, err, stale,
                   detection_events, pending, pc, event, result>>

\* The rest of one turn of the loop of next_event, for the valid event x
\* taken from the top of the heap and the outcome r of applying it; `event`
\* keeps the last event returned until the next one is.
ApplyTentativeEvent(x, r) ==
    /\ Commit(r.s)
    /\ event' = IF r.mwpm_event.kind # "None" THEN r.mwpm_event ELSE event
    /\ applied' = [event_id |-> x.event_id, time |-> x.time]
    /\ pc' = IF r.s.err # "" THEN "error"
             ELSE IF r.mwpm_event.kind # "None" THEN "process" ELSE "next"
    /\ UNCHANGED <<graph, syndrome, detection_events, pending, result>>

Popped == [State EXCEPT !.heap = heappop(events, heap),
                        !.time = events[HeapTop(heap)].time]

\* GraphFlooder.next_event: a neighbour interaction is popped and applied.
NextEventNeighborInteraction ==
    /\ pc = "next"
    /\ heap # <<>>
    /\ ~events[HeapTop(heap)].is_invalidated
    /\ events[HeapTop(heap)].kind = "neighbor"
    /\ ApplyTentativeEvent(events[HeapTop(heap)],
                           do_neighbor_interaction(Popped, events[HeapTop(heap)]))

\* GraphFlooder.next_event: a region shrink event is popped and applied.
NextEventRegionShrink ==
    /\ pc = "next"
    /\ heap # <<>>
    /\ ~events[HeapTop(heap)].is_invalidated
    /\ events[HeapTop(heap)].kind = "shrink"
    /\ ApplyTentativeEvent(events[HeapTop(heap)],
                           do_region_shrinking(Popped, events[HeapTop(heap)].region))

\* Mwpm.process_event followed by the return to the head of the decode loop.
Processed(s) ==
    /\ Commit(s)
    /\ pc' = IF s.err # "" THEN "error" ELSE "next"
    /\ applied' = NoApplied
    /\ UNCHANGED <<graph, syndrome, detection_events, pending, event, result>>

ProcessBlossomImploding ==
    /\ pc = "process"
    /\ Handler(State, event) = "blossom_imploding"
    /\ Processed(handle_blossom_imploding(State, event))

ProcessTreeHittingBoundary ==
    /\ pc = "process"
    /\ Handler(State, event) = "tree_hitting_boundary"
    /\ Processed(handle_tree_hitting_boundary(State, event))

ProcessTreeHittingMatch ==
    /\ pc = "process"
    /\ Handler(State, event) = "tree_hitting_match"
    /\ Processed(handle_tree_hitting_match(State, event))

ProcessTreeHittingBoundaryMatch ==
    /\ pc = "process"
    /\ Handler(State, event) = "tree_hitting_boundary_match"
    /\ Processed(handle_tree_hitting_boundary_match(State, event))

ProcessTreeHittingSelf ==
    /\ pc = "process"
    /\ Handler(State, event) = "tree_hitting_self"
    /\ Processed(handle_tree_hitting_self(State, event))

\* The last branch of process_event; "AttributeError" is the failure of
\* region.alt_tree_node.in_same_tree_as(...) on a region without a node.
ProcessTreeHittingOtherTree ==
    /\ pc = "process"
    /\ Handler(State, event) \in {"tree_hitting_other_tree", "AttributeError"}
    /\ Processed(IF Handler(State, event) = "AttributeError"
                 THEN Fail(State, "AttributeError: alt_tree_node is None")
                 ELSE handle_tree_hitting_other_tree(State, event))

\* "match_edges, total_weight, obs_mask = extract_matching_and_reset_graph()"
\* and the conversion of obs_mask.
Extract ==
    /\ pc = "extract"
    /\ LET r == extract_matching_and_reset_graph(State, detection_events)
       IN  /\ Commit(r.s)
           /\ result' = IF r.s.err # "" THEN result
                         ELSE [match_edges |-> r.res.match_edges,
                               total_weight |-> r.res.total_weight,
                               obs_mask |-> r.res.obs_mask,
                               predicted_observables |->
                                   int_to_binary_array(r.res.obs_mask,
                                                       graph.num_observables)]
           /\ pc' = IF r.s.err # "" THEN "error" ELSE "reset"
    /\ UNCHANGED <<graph, syndrome, detection_events, pending, event, applied>>

\* "self.mwpm.reset()" and the return of the MatchingResult: Mwpm.reset
\* forgets the detection events and the flooder releases its regions, its
\* schedule and its clock.  The nodes are left to the cleanup of the extraction.
Reset ==
    /\ pc = "reset"
    /\ detection_events' = <<>>
    /\ region' = <<>>
    /\ tree' = <<>>
    /\ events' = <<>>
    /\ heap' = <<>>
    /\ time' = 0
    /\ pc' = "done"
    /\ UNCHANGED <<graph, syndrome, node, err, stale, pending, event, applied, result>>

Next ==
    \/ AddDetectionEvent
    \/ NextEventNone
    \/ NextEventSkipInvalidated
    \/ NextEventNeighborInteraction
    \/ NextEventRegionShrink
    \/ ProcessBlossomImploding
    \/ ProcessTreeHittingBoundary
    \/ ProcessTreeHittingMatch
    \/ ProcessTreeHittingBoundaryMatch
    \/ ProcessTreeHittingSelf
    \/ ProcessTreeHittingOtherTree
    \/ Extract
    \/ Reset

Spec == Init /\ [][Next]_vars

\* The decode has returned or has raised.
Terminated == pc \in {"done", "error"}

\* decode_from_event_locations runs to its end: the loops of the decode keep
\* taking steps until it returns or raises.  A step of Next is possible
\* exactly when Terminated is false, so the fairness condition is weak
\* fairness of Next, written with ENABLED <<Next>>_vars spelled out.
FairSpec == Spec /\ ([]<>Terminated \/ []<><<Next>>_vars)

(* ---------------------------------------------------------------------- *)
(* Reference values: shortest paths and minimum-weight perfect matchings,   *)
(* computed from the graph alone.                                           *)
(* ---------------------------------------------------------------------- *)
MinOf(S) == CHOOSE x \in S : \A y \in S : x <= y

RECURSIVE SumSeq(_)
SumSeq(q) == IF q = <<>> THEN 0 ELSE Head(q) + SumSeq(Tail(q))

RECURSIVE SumWeights(_, _)
SumWeights(g, n) ==
    IF n > Len(g.nodes) THEN 0 ELSE SumSeq(g.nodes[n].distances) + SumWeights(g, n + 1)

\* A length no path reaches: it stands for "no path".
Unreachable(g) == 1 + SumWeights(g, 1)

\* One round of relaxation of the distances `row` from a fixed node.
RelaxNode(g, row, v) ==
    MinOf({row[v]} \cup
          {row[g.nodes[v].neighbors[i]] + g.nodes[v].distances[i] :
              i \in {j \in 1..Len(g.nodes[v].neighbors) : g.nodes[v].neighbors[j] # None}})

RECURSIVE RelaxFrom(_, _, _)
RelaxFrom(g, row, v) ==
    IF v > Len(row) THEN <<>> ELSE <<RelaxNode(g, row, v)>> \o RelaxFrom(g, row, v + 1)

RECURSIVE Relaxed(_, _, _)
Relaxed(g, row, k) == IF k = 0 THEN row ELSE Relaxed(g, RelaxFrom(g, row, 1), k - 1)

RECURSIVE InitialRow(_, _, _, _)
InitialRow(n, u, v, inf) ==
    IF v > n THEN <<>> ELSE <<IF v = u THEN 0 ELSE inf>> \o InitialRow(n, u, v + 1, inf)

\* The shortest-path distances between all pairs of nodes, row by row.
RECURSIVE DistanceRows(_, _, _)
DistanceRows(g, u, inf) ==
    IF u > Len(g.nodes) THEN <<>>
    ELSE <<Relaxed(g, InitialRow(Len(g.nodes), u, 1, inf), Len(g.nodes))>>
         \o DistanceRows(g, u + 1, inf)

\* The shortest distance from u to the boundary, given the rows D.
BoundaryDistance(g, D, u, inf) ==
    MinOf({inf} \cup
          UNION {{D[u][v] + g.nodes[v].distances[i] :
                     i \in {j \in 1..Len(g.nodes[v].neighbors) :
                               g.nodes[v].neighbors[j] = None}} :
                 v \in {w \in 1..Len(g.nodes) : D[u][w] < inf}})

\* The total weights of all perfect matchings of the events S, each event
\* paired with another event or with the boundary along a shortest path.
RECURSIVE MatchingWeightsOver(_, _, _, _)
MatchingWeightsOver(g, D, inf, S) ==
    IF S = {} THEN {0}
    ELSE LET a == MinOf(S)
         IN  {BoundaryDistance(g, D, a, inf) + w :
                  w \in IF BoundaryDistance(g, D, a, inf) < inf
                        THEN MatchingWeightsOver(g, D, inf, S \ {a}) ELSE {}}
             \cup UNION {{D[a][b] + w : w \in MatchingWeightsOver(g, D, inf, S \ {a, b})} :
                            b \in {c \in S \ {a} : D[a][c] < inf}}

MatchingWeights(g, S) ==
    MatchingWeightsOver(g, DistanceRows(g, 1, Unreachable(g)), Unreachable(g), S)

\* The syndrome admits a perfect matching.
AdmitsPerfectMatching == MatchingWeights(graph, syndrome) # {}

(* ---------------------------------------------------------------------- *)
(* Properties of the decoder.                                               *)
(* ---------------------------------------------------------------------- *)
\* The top-level regions that hold the detection events.
LiveTopRegions == {NodeTopRegion(State, detection_events[i]) : i \in 1..Len(detection_events)}

Slope(r) == region[r].radius.slope

EdgesAt(d) ==
    {i \in 1..Len(result.match_edges) :
        result.match_edges[i].loc_from = d \/ result.match_edges[i].loc_to = d}

AllMatched ==
    /\ \A i \in 1..Len(detection_events) :
          /\ NodeTopRegion(State, detection_events[i]) # None
          /\ Cardinality({r \in LiveTopRegions :
                 detection_events[i] \in Range(iter_total_area(State, r))}) = 1
    /\ \A r \in LiveTopRegions :
          /\ region[r].match # <<>>
          /\ region[r].match[1].region # None =>
                /\ region[r].match[1].region \in LiveTopRegions
                /\ region[region[r].match[1].region].match # <<>>
                /\ region[region[r].match[1].region].match[1].region = r
          /\ \A c \in RegionsWithin(State, r) : region[c].alt_tree_node = None

QueuedInteractions ==
    {e \in Range(heap) : ~events[e].is_invalidated /\ events[e].kind = "neighbor"}

BlossomCallNow == BlossomArgs(State, event, CommonAncestor(State, event))

CallsCreateBlossom ==
    /\ pc = "process"
    /\ Handler(State, event) = "tree_hitting_self"
    /\ CommonAncestor(State, event) # None

\* What create_blossom(cycle), called in state pre, has done in state post.
BlossomCreated(pre, cycle, post) ==
    LET b == Len(post.region)
    IN  /\ b = Len(pre.region) + 1
        /\ post.region[b].radius.slope = 1
        /\ VCall(post.region[b].radius, pre.time) = 0
        /\ post.region[b].blossom_parent = None
        /\ post.region[b].blossom_children = cycle
        /\ top_region(post, b) = b
        /\ post.time = pre.time
        /\ \A i \in 1..Len(cycle) :
              LET c == cycle[i].region
              IN  /\ post.region[c].radius.slope = 0
                  /\ VCall(post.region[c].radius, pre.time) = VCall(pre.region[c].radius, pre.time)
                  /\ post.region[c].blossom_parent = b
                  /\ post.region[c].alt_tree_node = None
                  /\ top_region(post, c) = b
                  /\ post.region[c].shrink_event = None
                  /\ pre.region[c].shrink_event # None =>
                        post.events[pre.region[c].shrink_event].is_invalidated

BlossomCreatedBy(call) == BlossomCreated(call.s, call.cycle, create_blossom(call.s, call.cycle))

HasLiveShrinkEvent(s, cycle) ==
    \E i \in 1..Len(cycle) :
        /\ s.region[cycle[i].region].shrink_event # None
        /\ ~s.events[s.region[cycle[i].region].shrink_event].is_invalidated
        /\ s.region[cycle[i].region].radius.slope = -1

GrowthRegions == {r \in LiveTopRegions : r # None}

\* The queued, valid events of region r and of the nodes of its area.
OwnEvents(s, r) ==
    {e \in Range(s.heap) : ~s.events[e].is_invalidated /\ Involves(s, e, r)}

SameInteraction(x, y) ==
    /\ x.kind = y.kind
    /\ x.time = y.time
    /\ IF x.kind = "shrink" THEN x.region = y.region
       ELSE {x.location_data_1, x.location_data_2} = {y.location_data_1, y.location_data_2}

\* What set_region_growth(r, g), called in state pre, has done in state post.
GrowthSet(pre, r, g, post) ==
    /\ post.region[r].radius.slope = g
    /\ VCall(post.region[r].radius, pre.time) = VCall(pre.region[r].radius, pre.time)
    /\ post.time = pre.time
    /\ \A q \in 1..Len(pre.region) : q # r => post.region[q].radius = pre.region[q].radius
    /\ \A e \in OwnEvents(pre, r) : post.events[e].is_invalidated
    /\ \A e \in OwnEvents(post, r) : e > Len(pre.events)
    /\ g = pre.region[r].radius.slope =>
          \A e \in OwnEvents(pre, r) :
              \E f \in OwnEvents(post, r) : SameInteraction(pre.events[e], post.events[f])

EmptyNodes == {n \in 1..Len(node) : node[n].region_that_arrived = None}

\* What create_region(n), called in state pre, has done in state post.
RegionCreated(pre, n, post) ==
    LET k == Len(post.region)
    IN  /\ k = Len(pre.region) + 1
        /\ post.region[k].id = k
        /\ \A q \in 1..Len(pre.region) : pre.region[q].id # k
        /\ post.region[k].radius.slope = 1
        /\ post.region[k].source = n
        /\ Range(iter_total_area(post, k)) = {n}
        /\ post.node[n].region_that_arrived = k
        /\ post.node[n].reached_from_source = n
        /\ post.node[n].distance_from_source = 0
        /\ post.time = pre.time

\* C11: create_region(n), called at any flooder time t, yields a fresh
\* region with an unused id, slope +1 and radius 0 at time t, whose area
\* is exactly n, with n its own source at distance 0.
C11_CreateRegionAtAnyTime ==
    (pc = "next") =>
        \A n \in EmptyNodes :
            /\ RegionCreated(State, n, create_region(State, n))
            /\ VCall(Last(create_region(State, n).region).radius, time) = 0

\* C11 without the radius: everything else the claim says of the region holds.
C11_CreateRegionButRadius ==
    (pc = "next") =>
        \A n \in EmptyNodes : RegionCreated(State, n, create_region(State, n))

\* The radius create_region gives at time t is t (Varying.T), not 0.
C11_RadiusIsTime ==
    (pc = "next") =>
        \A n \in EmptyNodes :
            VCall(Last(create_region(State, n).region).radius, time) = time

\* The flooder is at a later time than 0 and has a node no region has reached.
C11_Witness == pc = "next" /\ time > 2 /\ Cardinality(EmptyNodes) >= 2

(* ---------------------------------------------------------------------- *)
(* graph_flooder.py: next_event(max_time) as one call.                      *)
(* ---------------------------------------------------------------------- *)
\* How far beyond the current time the max_time of a call is drawn.
MaxAhead == 4

\* "tentative_event = heapq.heappop(...)" and "self.time = tentative_event.time".
PoppedFrom(s) == [s EXCEPT !.heap = heappop(s.events, s.heap),
                           !.time = s.events[HeapTop(s.heap)].time]

\* The effect of the valid event x at the top of the heap of s.
TentativeEventEffect(s, x) ==
    IF x.kind = "neighbor" THEN do_neighbor_interaction(PoppedFrom(s), x)
    ELSE do_region_shrinking(PoppedFrom(s), x.region)

\* GraphFlooder.next_event(max_time): the loop runs while the heap holds an
\* event that fires by max_time; `done` lists the events applied so far.
RECURSIVE next_event(_, _, _)
NextEventTurn(x, r, max_time, done) ==
    IF r.s.err # "" \/ r.mwpm_event.kind # "None"
    THEN [s |-> r.s, mwpm_event |-> r.mwpm_event, applied |-> Append(done, x)]
    ELSE next_event(r.s, max_time, Append(done, x))

next_event(s, max_time, done) ==
    IF s.heap = <<>> \/ s.events[HeapTop(s.heap)].time > max_time
    THEN [s |-> s, mwpm_event |-> NoEvent, applied |-> done]
    ELSE IF s.events[HeapTop(s.heap)].is_invalidated
    THEN next_event([s EXCEPT !.heap = heappop(s.events, s.heap)], max_time, done)
    ELSE NextEventTurn(s.events[HeapTop(s.heap)],
                       TentativeEventEffect(s, s.events[HeapTop(s.heap)]),
                       max_time, done)

\* The values of max_time tried in a state: from the current time on.
MaxTimes == time..(time + MaxAhead)

\* No event applied or returned by the call that gave r fires after max_time.
NothingBeyond(r, max_time) ==
    /\ \A i \in 1..Len(r.applied) : r.applied[i].time <= max_time
    /\ r.mwpm_event.kind # "None" => r.mwpm_event.time <= max_time
    /\ r.s.time <= max_time

\* A call that returned none left the flooder's time at max_time.
NoneLeavesTimeAt(r, max_time) ==
    (r.s.err = "" /\ r.mwpm_event.kind = "None") => r.s.time = max_time

\* C12: next_event(max_time) never applies or returns a tentative event that
\* fires after max_time, and when it returns none because nothing
\* reportable fires by max_time, the flooder's time is max_time afterwards.
C12_NextEventWithinMaxTime ==
    (pc = "next") =>
        \A m \in MaxTimes :
            /\ NothingBeyond(next_event(State, m, <<>>), m)
            /\ NoneLeavesTimeAt(next_event(State, m, <<>>), m)

\* The first half of C12: nothing that fires after max_time is applied or returned.
C12_NothingBeyondMaxTime ==
    (pc = "next") =>
        \A m \in MaxTimes : NothingBeyond(next_event(State, m, <<>>), m)

\* What the code does when it returns none: the time is that of the last
\* event applied, or the time before the call when none was.
C12_NoneLeavesTimeAtLastEvent ==
    (pc = "next") =>
        \A m \in MaxTimes :
            LET r == next_event(State, m, <<>>)
            IN  (r.s.err = "" /\ r.mwpm_event.kind = "None") =>
                    r.s.time = IF r.applied = <<>> THEN time ELSE Last(r.applied).time

\* A call whose max_time lies before the next event of the heap, and one
\* that applies an unreportable event and then finds nothing more by max_time.
C12_Witness ==
    /\ pc = "next"
    /\ \E m \in MaxTimes :
           /\ next_event(State, m, <<>>).mwpm_event.kind = "None"
           /\ next_event(State, m, <<>>).applied # <<>>
           /\ next_event(State, m, <<>>).s.heap # <<>>
           /\ next_event(State, m, <<>>).s.time < m
    /\ \E m \in MaxTimes :
           /\ next_event(State, m, <<>>).mwpm_event.kind # "None"
           /\ next_event(State, m, <<>>).mwpm_event.time = m

(* ---------------------------------------------------------------------- *)
(* Order of equal-time events.                                              *)
(* ---------------------------------------------------------------------- *)
\* The valid events queued for the same time as the event at the top of the heap.
ValidTies ==
    {heap[i] : i \in {j \in 2..Len(heap) :
                         /\ ~events[heap[j]].is_invalidated
                         /\ events[heap[j]].time = events[HeapTop(heap)].time}}

\* next_event is about to apply the valid event at the top of the heap.
AboutToApply == pc = "next" /\ heap # <<>> /\ ~events[HeapTop(heap)].is_invalidated

\* C13: among valid tentative events with identical firing times,
\* next_event processes them in the order in which they were scheduled:
\* the event it applies has the least event id of the valid events queued
\* for that time.
C13_EqualTimesInSchedulingOrder ==
    AboutToApply => \A e \in ValidTies : HeapTop(heap) < e

\* What holds of the event applied: no valid event fires before it.
C13_AppliedEventIsEarliest ==
    AboutToApply =>
        \A i \in 1..Len(heap) :
            ~events[heap[i]].is_invalidated =>
                events[HeapTop(heap)].time <= events[heap[i]].time

\* next_event applies an event while valid events of the same time are
\* queued, some scheduled before it and some after it.
C13_Witness ==
    /\ AboutToApply
    /\ \E e \in ValidTies : e < HeapTop(heap)
    /\ \E e \in ValidTies : e > HeapTop(heap)

(* ---------------------------------------------------------------------- *)
(* compressed_edge.py: to_path, a search from loc_from over the graph g.    *)
(* The search fields of the nodes are kept in `dist` (NoDistance for None)  *)
(* and `pred` (the 1-based slot of the predecessor, None for None).         *)
(* ---------------------------------------------------------------------- *)
NoPath(what) == [err |-> what, path |-> <<>>]

\* _path_from_predecessors
RECURSIVE path_from_predecessors(_, _, _)
path_from_predecessors(g, pred, n) ==
    IF pred[n] = None THEN <<>>
    ELSE Append(path_from_predecessors(g, pred, g.nodes[n].neighbors_with_boundary[pred[n]]),
                CompressedEdge(g.nodes[n].neighbors_with_boundary[pred[n]], n,
                               g.nodes[n].observables[pred[n]],
                               g.nodes[n].distances[pred[n]]))

\* _min_edge_to_boundary: the slot of the first shortest boundary edge of n.
BoundarySlots(g, n) ==
    {i \in 1..Len(g.nodes[n].neighbors) : g.nodes[n].neighbors_with_boundary[i] = None}

min_edge_to_boundary(g, n) ==
    CHOOSE i \in BoundarySlots(g, n) :
        \A j \in BoundarySlots(g, n) :
            \/ g.nodes[n].distances[i] < g.nodes[n].distances[j]
            \/ (g.nodes[n].distances[i] = g.nodes[n].distances[j] /\ i <= j)

\* A faulty pop that takes the tuple pushed last, whatever its distance; C14
\* is tested against it.
QueueLast(q) == CHOOSE t \in q : \A u \in q : t[2] >= u[2]

\* heapq.heappop(queue): the tuples (distance, counter, node) are totally
\* ordered by their first two parts, the counters being distinct.
QueueMin(q) ==
    CHOOSE t \in q : \A u \in q : t[1] < u[1] \/ (t[1] = u[1] /\ t[2] <= u[2])

\* "for i in range(len(current_node.neighbors))": the neighbours of cur,
\* popped at `distance`, from slot i on.
RECURSIVE ScanNeighbors(_, _, _, _, _, _)
PushNeighbor(g, e, st, cur, distance, i) ==
    LET v == g.nodes[cur].neighbors_with_boundary[i]
        new_distance == distance + g.nodes[cur].distances[i]
        pushed == [st EXCEPT !.heap_counter = @ + 1,
                             !.queue = @ \cup {<<new_distance, st.heap_counter + 1, v>>}]
    IN  IF v = None
        THEN IF e.loc_to # None THEN st
             ELSE IF st.boundary_distance = NoDistance \/ new_distance < st.boundary_distance
             THEN [pushed EXCEPT !.boundary_distance = new_distance,
                                 !.boundary_predecessor = cur]
             ELSE pushed
        ELSE IF st.dist[v] = NoDistance \/ new_distance < st.dist[v]
             THEN [pushed EXCEPT !.dist[v] = new_distance,
                                 !.pred[v] = g.nodes[cur].neighbor_index[i] + 1]
             ELSE st

ScanNeighbors(g, e, st, cur, distance, i) ==
    IF i > Len(g.nodes[cur].neighbors) THEN st
    ELSE ScanNeighbors(g, e, PushNeighbor(g, e, st, cur, distance, i), cur, distance, i + 1)

\* The loop "while heapq:", which only a break or an exception ends.
RECURSIVE SearchLoop(_, _, _)
SearchTurn(g, e, st, top) ==
    IF top[3] # None /\ top[1] # st.dist[top[3]] THEN SearchLoop(g, e, st)
    ELSE IF top[3] = None /\ top[1] # st.boundary_distance THEN SearchLoop(g, e, st)
    ELSE IF top[3] = None /\ e.loc_to = None
    THEN [err |-> "",
          path |-> Append(path_from_predecessors(g, st.pred, st.boundary_predecessor),
                          CompressedEdge(st.boundary_predecessor, None,
                              g.nodes[st.boundary_predecessor].observables[
                                  min_edge_to_boundary(g, st.boundary_predecessor)],
                              g.nodes[st.boundary_predecessor].distances[
                                  min_edge_to_boundary(g, st.boundary_predecessor)]))]
    ELSE IF top[3] = e.loc_to /\ top[3] # None
    THEN IF top[1] # e.distance THEN NoPath("AssertionError: to_path")
         ELSE [err |-> "", path |-> path_from_predecessors(g, st.pred, top[3])]
    ELSE IF top[3] = None THEN NoPath("AttributeError: to_path")
    ELSE SearchLoop(g, e, ScanNeighbors(g, e, st, top[3], top[1], 1))

SearchLoop(g, e, st) ==
    IF st.queue = {} THEN NoPath("IndexError: index out of range")
    ELSE SearchTurn(g, e, [st EXCEPT !.queue = @ \ {QueueMin(st.queue)}], QueueMin(st.queue))

SearchStart(g, e) ==
    [dist |-> [n \in 1..Len(g.nodes) |-> IF n = e.loc_from THEN 0 ELSE NoDistance],
     pred |-> [n \in 1..Len(g.nodes) |-> None],
     queue |-> {<<0, 0, e.loc_from>>},
     heap_counter |-> 1,
     boundary_distance |-> NoDistance,
     boundary_predecessor |-> None]

\* "list(reversed([e.reversed() for e in ...]))"
ReversedPath(p) == [i \in 1..Len(p) |-> EdgeReversed(p[Len(p) + 1 - i])]

\* CompressedEdge.to_path: [err, path]
to_path(g, e) ==
    IF e.loc_from = None /\ e.loc_to = None THEN NoPath("ValueError: to_path")
    ELSE IF e.loc_from = None
    THEN LET r == SearchLoop(g, EdgeReversed(e), SearchStart(g, EdgeReversed(e)))
         IN  [err |-> r.err, path |-> ReversedPath(r.path)]
    ELSE SearchLoop(g, e, SearchStart(g, e))

(* ---------------------------------------------------------------------- *)
(* Properties of the paths of the match edges.                              *)
(* ---------------------------------------------------------------------- *)
\* x is an edge of the graph g as it was added: a slot of x.loc_from.
PrimitiveEdge(g, x) ==
    /\ x.loc_from # None
    /\ \E i \in 1..Len(g.nodes[x.loc_from].neighbors) :
           /\ g.nodes[x.loc_from].neighbors_with_boundary[i] = x.loc_to
           /\ g.nodes[x.loc_from].distances[i] = x.distance
           /\ g.nodes[x.loc_from].observables[i] = x.obs_mask

\* The edges of p chain end-to-end from a to b.
ChainsFromTo(p, a, b) ==
    /\ p # <<>>
    /\ p[1].loc_from = a
    /\ p[Len(p)].loc_to = b
    /\ \A i \in 1..(Len(p) - 1) : p[i].loc_to = p[i + 1].loc_from

\* The shortest-path distance between the endpoints of e, from the reference rows.
ShortestDistance(g, e) ==
    IF e.loc_to = None
    THEN BoundaryDistance(g, DistanceRows(g, 1, Unreachable(g)), e.loc_from, Unreachable(g))
    ELSE DistanceRows(g, 1, Unreachable(g))[e.loc_from][e.loc_to]

\* to_path gave r for the edge e: a chain of graph edges of the length of e.
PathWitnesses(g, e, r) ==
    /\ r.err = ""
    /\ ChainsFromTo(r.path, e.loc_from, e.loc_to)
    /\ \A i \in 1..Len(r.path) : PrimitiveEdge(g, r.path[i])
    /\ SumSeq([i \in 1..Len(r.path) |-> r.path[i].distance]) = e.distance
    /\ e.distance = ShortestDistance(g, e)

\* The decode has returned its match edges.
Returned == pc \in {"reset", "done"}

NodeCleared(n) ==
    /\ node[n].reached_from_source = None
    /\ node[n].distance_from_source = NoDistance
    /\ node[n].region_that_arrived = None
    /\ node[n].observables_crossed = 0
    /\ Len(node[n].schedule_list) = NumNeighbors(n)
    /\ \A i \in 1..NumNeighbors(n) : node[n].schedule_list[i] = None

\* The Matching object is in the state in which a new one built on the same
\* graph starts: every variable a decode reads is as in Init.
AsFresh ==
    /\ node = [n \in 1..Len(graph.nodes) |-> CleanNode(Len(graph.nodes[n].neighbors))]
    /\ region = <<>>
    /\ tree = <<>>
    /\ events = <<>>
    /\ heap = <<>>
    /\ time = 0
    /\ err = ""
    /\ detection_events = <<>>

Raised == pc = "error" /\ err # ""

C16_ReportedByExtraction ==
    (pc = "error" /\ ~AdmitsPerfectMatching) =>
        err = "AssertionError: extract_matching_and_reset_graph"

MaxWeight == 1
MaxMask == 3
MaxSlots == 2

RECURSIVE NumSlots(_, _)
NumSlots(g, n) ==
    IF n > Len(g.nodes) THEN 0 ELSE Len(g.nodes[n].neighbors) + NumSlots(g, n + 1)

\* A Graph() on which no decoder has been built yet.
GraphInit ==
    /\ graph = EmptyGraph
    /\ syndrome = {}
    /\ pending = <<>>
    /\ node = <<>>
    /\ region = <<>>
    /\ tree = <<>>
    /\ events = <<>>
    /\ heap = <<>>
    /\ time = 0
    /\ err = ""
    /\ detection_events = <<>>
    /\ pc = "build"
    /\ event = NoEvent
    /\ applied = NoApplied
    /\ result = NoResult
    /\ stale = {}

Built(g) ==
    /\ graph' = g
    /\ UNCHANGED <<syndrome, pending, node, region, tree, events, heap, time, err,
                   detection_events, pc, event, applied, result, stale>>

\* Graph.add_edge(u, v, weight, observables) between two distinct locations,
\* each an existing one or the next new one.
GraphAddEdge ==
    /\ pc = "build"
    /\ NumSlots(graph, 1) < MaxSlots
    /\ \E u \in 1..(Len(graph.nodes) + 1) :
       \E v \in 1..(Len(WithNode(graph.nodes, u)) + 1) :
       \E weight \in (0 - MaxWeight)..MaxWeight :
       \E observables \in 0..MaxMask :
           /\ u # v
           /\ Built(add_edge(graph, u, v, weight, observables))

\* Graph.add_boundary_edge(u, weight, observables)
GraphAddBoundaryEdge ==
    /\ pc = "build"
    /\ NumSlots(graph, 1) < MaxSlots
    /\ \E u \in 1..(Len(graph.nodes) + 1) :
       \E weight \in (0 - MaxWeight)..MaxWeight :
       \E observables \in 0..MaxMask :
           Built(add_boundary_edge(graph, u, weight, observables))

GraphNext == GraphAddEdge \/ GraphAddBoundaryEdge

GraphSpec == GraphInit /\ [][GraphNext]_vars

(* ---------------------------------------------------------------------- *)
(* Properties of the graphs built.                                          *)
(* ---------------------------------------------------------------------- *)
\* The adjacency entries of the graph: <<node, slot>>.
Slots ==
    UNION {{<<n, i>> : i \in 1..Len(graph.nodes[n].neighbors)} : n \in 1..Len(graph.nodes)}

\* C17: an edge with a negative weight is rejected by add_edge and by
\* add_boundary_edge, which leave the graph unchanged: no graph ever
\* holds a negative weight.
C17_NoNegativeWeightInGraph ==
    \A x \in Slots : graph.nodes[x[1]].distances[x[2]] >= 0

\* A graph holds an edge and a boundary edge of negative weight.
C17_Witness ==
    /\ \E x \in Slots : /\ graph.nodes[x[1]].distances[x[2]] < 0
                        /\ graph.nodes[x[1]].neighbors_with_boundary[x[2]] = None
    /\ \E x \in Slots : /\ graph.nodes[x[1]].distances[x[2]] < 0
                        /\ graph.nodes[x[1]].neighbors_with_boundary[x[2]] # None


\* The number of bits of the largest observable mask on the entries X of the
\* graph, as len(bin(mask)[:1:-1]) counts them; 0 when there is no entry.
BitsNeeded(X) ==
    IF X = {} THEN 0
    ELSE NumBits(CHOOSE m \in {graph.nodes[x[1]].observables[x[2]] : x \in X} :
                     \A x \in X : graph.nodes[x[1]].observables[x[2]] <= m)

BoundaryEntries == {x \in Slots : graph.nodes[x[1]].neighbors_with_boundary[x[2]] = None}

\* C18: after any sequence of add_edge and add_boundary_edge calls,
\* Graph.num_observables is the number of bits needed for the largest
\* observable mask on any edge of the graph, boundary edges included.
C18_NumObservablesCoversAllEdges ==
    graph.num_observables = BitsNeeded(Slots)

\* What the code keeps: the number of bits of the largest mask on the edges
\* between two nodes; the boundary edges are not counted.
C18_NumObservablesCoversInnerEdges ==
    graph.num_observables = BitsNeeded(Slots \ BoundaryEntries)

\* A graph whose boundary edge has a mask of more bits than every edge
\* between two of its nodes.
C18_Witness ==
    /\ Slots \ BoundaryEntries # {}
    /\ BitsNeeded(BoundaryEntries) > BitsNeeded(Slots \ BoundaryEntries)

(* ---------------------------------------------------------------------- *)
(* Invalidation of tentative events.                                        *)
(* ---------------------------------------------------------------------- *)
\* e.invalidate() for a tentative event of either class.
invalidate(s, e) ==
    IF s.events[e].kind = "neighbor" THEN InvalidateNeighborEvent(s, e)
    ELSE InvalidateShrinkEvent(s, e)

\* No node schedule slot and no region shrink slot of s references e.
Unreferenced(s, e) ==
    /\ \A n \in 1..Len(s.node) :
           \A i \in 1..Len(s.node[n].schedule_list) : s.node[n].schedule_list[i] # e
    /\ \A r \in 1..Len(s.region) : s.region[r].shrink_event # e

\* The valid events of a kind that wait in the heap.
ValidEvents(kind) ==
    {e \in Range(heap) : events[e].kind = kind /\ ~events[e].is_invalidated}

\* Invalidating e in State once gave s1, and once more gave s2.
InvalidatedForGood(e, s1, s2) ==
    /\ s1.err = ""
    /\ s1.events[e].is_invalidated
    /\ Unreferenced(s1, e)
    /\ s2 = s1

\* C19: invalidating a tentative event is idempotent and complete: after
\* one or more invalidate() calls the event is flagged invalidated, no node
\* schedule slot and no region shrink slot references it, and the second
\* and later calls change nothing and raise nothing.
C19_InvalidateIdempotentAndComplete ==
    (pc = "next") =>
        \A e \in ValidEvents("neighbor") \cup ValidEvents("shrink") :
            InvalidatedForGood(e, invalidate(State, e),
                               invalidate(invalidate(State, e), e))

\* What holds of a neighbour interaction event: the first call flags it and
\* empties its node slots; the second call fails its assert.
C19_NeighborEventOnceOnly ==
    (pc = "next") =>
        \A e \in ValidEvents("neighbor") :
            /\ invalidate(State, e).err = ""
            /\ invalidate(State, e).events[e].is_invalidated
            /\ Unreferenced(invalidate(State, e), e)
            /\ invalidate(invalidate(State, e), e).err = "AssertionError: invalidate"

\* What holds of a region shrink event: the calls flag it and the second
\* changes nothing, but the shrink slot of its region still holds it.
C19_ShrinkEventKeepsItsSlot ==
    (pc = "next") =>
        \A e \in ValidEvents("shrink") :
            /\ invalidate(State, e).err = ""
            /\ invalidate(State, e).events[e].is_invalidated
            /\ invalidate(invalidate(State, e), e) = invalidate(State, e)
            /\ invalidate(State, e).region[events[e].region].shrink_event = e

\* Valid events of both classes wait in the heap, one of them between two nodes.
C19_Witness ==
    /\ pc = "next"
    /\ ValidEvents("shrink") # {}
    /\ \E e \in ValidEvents("neighbor") : events[e].location_data_2 # None

(* ---------------------------------------------------------------------- *)
(* The states of a region.                                                  *)
(* ---------------------------------------------------------------------- *)
\* The regions in use: the top-level regions of the detection events and
\* the regions packed into a blossom.
RegionsInUse ==
    LiveTopRegions \cup {r \in 1..Len(region) : region[r].blossom_parent # None}

IsOuter(r) ==
    /\ Slope(r) = 1
    /\ region[r].alt_tree_node # None
    /\ tree[region[r].alt_tree_node].outer_region = r
    /\ region[r].match = <<>>
    /\ region[r].blossom_parent = None

IsInner(r) ==
    /\ Slope(r) = -1
    /\ region[r].alt_tree_node # None
    /\ tree[region[r].alt_tree_node].inner_region = r
    /\ region[r].match = <<>>
    /\ region[r].blossom_parent = None

IsMatched(r) ==
    /\ Slope(r) = 0
    /\ region[r].match # <<>>
    /\ region[r].alt_tree_node = None
    /\ region[r].blossom_parent = None

IsBlossomChild(r) ==
    /\ Slope(r) = 0
    /\ region[r].blossom_parent # None
    /\ region[r].alt_tree_node = None

NodesInUse ==
    {region[r].alt_tree_node : r \in {q \in LiveTopRegions : region[q].alt_tree_node # None}}

IsRoot(n) == tree[n].inner_region = None /\ tree[n].parent = <<>>

IsBelowRoot(n) == tree[n].inner_region # None /\ tree[n].parent # <<>>

\* Following the parent links from n ends at a root within `fuel` steps.
RECURSIVE ReachesRoot(_, _)
ReachesRoot(n, fuel) ==
    IF tree[n].parent = <<>> THEN IsRoot(n)
    ELSE fuel > 0 /\ ReachesRoot(tree[n].parent[1].node, fuel - 1)

\* The roots among the node n and its ancestors, n held to have at most
\* `fuel` ancestors.
RECURSIVE RootsAbove(_, _)
RootsAbove(n, fuel) ==
    (IF tree[n].inner_region = None \/ tree[n].parent = <<>> THEN {n} ELSE {})
    \cup (IF tree[n].parent = <<>> \/ fuel = 0 THEN {}
          ELSE RootsAbove(tree[n].parent[1].node, fuel - 1))

\* C21: after every processed event, in every alternating tree exactly one
\* node, the root, has no inner region and no parent and every other node
\* has both; the parent link of every child of a node n points back to n;
\* and the parent links lead from every node to the root without a cycle.
C21_TreesAreRootedTrees ==
    (pc = "next") =>
        \A n \in NodesInUse :
            /\ IsRoot(n) \/ IsBelowRoot(n)
            /\ \A i \in 1..Len(tree[n].children) :
                   /\ tree[tree[n].children[i].node].parent # <<>>
                   /\ tree[tree[n].children[i].node].parent[1].node = n
                   /\ tree[n].children[i].node \in NodesInUse
            /\ tree[n].parent # <<>> =>
                   /\ tree[n].parent[1].node \in NodesInUse
                   /\ \E i \in 1..Len(tree[tree[n].parent[1].node].children) :
                          tree[tree[n].parent[1].node].children[i].node = n
            /\ ReachesRoot(n, Len(tree))
            /\ Cardinality(RootsAbove(n, Len(tree))) = 1

\* A tree of three levels: a node whose parent has a parent.
C21_Witness ==
    /\ pc = "next"
    /\ \E n \in NodesInUse :
           /\ tree[n].parent # <<>>
           /\ tree[tree[n].parent[1].node].parent # <<>>


(* ---------------------------------------------------------------------- *)
(* Regions and the tree nodes that hold them.                               *)
(* ---------------------------------------------------------------------- *)
RegionsOf(n) == {tree[n].inner_region, tree[n].outer_region} \ {None}

Blossoms == {b \in 1..Len(region) : region[b].blossom_children # <<>>}

\* The detection events inside a region.
RECURSIVE SourcesIn(_)
SourcesIn(r) ==
    IF region[r].blossom_children = <<>> THEN {region[r].source}
    ELSE UNION {SourcesIn(region[r].blossom_children[i].region) :
                    i \in 1..Len(region[r].blossom_children)}

CycleNext(b, i) == (i % Len(region[b].blossom_children)) + 1

OddCycle(b) == Len(region[b].blossom_children) % 2 = 1

SlotEventsOf(regions) ==
    (UNION {Range(node[n].schedule_list) : n \in 1..Len(node)}
       \cup {region[r].shrink_event : r \in regions}) \ {None}

SlotEvents == SlotEventsOf(RegionsInUse)

\* The schedule slots of an event.
SlotsOfEvent(e) ==
    IF events[e].kind = "shrink" THEN {<<"region", events[e].region, None>>}
    ELSE {<<"node", events[e].location_data_1, events[e].schedule_list_index_1>>}
         \cup (IF events[e].schedule_list_index_2 = None THEN {}
               ELSE {<<"node", events[e].location_data_2, events[e].schedule_list_index_2>>})

QueuedValid == {e \in Range(heap) : ~events[e].is_invalidated}

OnePerSlot ==
    /\ \A i, j \in 1..Len(heap) : heap[i] = heap[j] => i = j
    /\ \A e1, e2 \in QueuedValid : e1 # e2 => SlotsOfEvent(e1) \cap SlotsOfEvent(e2) = {}

SlotEventsQueuedValid == SlotEvents \subseteq QueuedValid

Decoding == pc \in {"add", "next", "process"}

ClaimedNodes == {n \in 1..Len(node) : node[n].region_that_arrived # None}

RadiusNow(r) == VCall(region[r].radius, time)

LocalRadiusNow(n) == VCall(local_radius(State, n), time)

IsSourceNode(n) ==
    /\ node[n].region_that_arrived # None
    /\ region[node[n].region_that_arrived].source = n

\* Node p, through its slot i, is a node from which the region of n may
\* have advanced to n: p belongs to that region or to a region packed into
\* it, and the fields of n are those of p with the edge added.
AdvancedFrom(n, p, i) ==
    /\ graph.nodes[p].neighbors[i] = n
    /\ node[p].region_that_arrived \in RegionsWithin(State, node[n].region_that_arrived)
    /\ node[p].reached_from_source = node[n].reached_from_source
    /\ node[n].distance_from_source = node[p].distance_from_source + graph.nodes[p].distances[i]
    /\ node[n].observables_crossed
           = Xor(node[p].observables_crossed, graph.nodes[p].observables[i])

\* The fields of n are accounted for by a chain of at most `fuel` edges
\* from its source.
RECURSIVE ChainFromSource(_, _)
ChainFromSource(n, fuel) ==
    IF IsSourceNode(n)
    THEN /\ node[n].reached_from_source = n
         /\ node[n].distance_from_source = 0
         /\ node[n].observables_crossed = 0
    ELSE /\ fuel > 0
         /\ \E p \in ClaimedNodes \ {n} : \E i \in 1..NumNeighbors(p) :
                AdvancedFrom(n, p, i) /\ ChainFromSource(p, fuel - 1)

TreeHitsMatch == pc = "process" /\ Handler(State, event) = "tree_hitting_match"

\* The regions of the collision: T of the tree, M the matched one it hit
\* and N the region M is matched to.
HitM == IF region[event.region2].match # <<>> THEN event.region2 ELSE event.region1

HitT == IF region[event.region2].match # <<>> THEN event.region1 ELSE event.region2

HitN == region[HitM].match[1].region

LeadsFromTo(edge, r1, r2) == edge.loc_from \in SourcesIn(r1) /\ edge.loc_to \in SourcesIn(r2)

\* The events in the schedule slots of the nodes of region r, in state s.
AreaSlotEvents(s, r) ==
    UNION {Range(s.node[n].schedule_list) : n \in Range(iter_total_area(s, r))} \ {None}

\* The step has added the pair (m, n) below the node of t.
PairAddedBelow(t, m, n, k) ==
    /\ err' = ""
    /\ Len(tree') = Len(tree) + 1
    /\ tree'[k].inner_region = m
    /\ tree'[k].outer_region = n
    /\ tree'[k].children = <<>>
    /\ tree'[k].inner_outer_edge = region[m].match[1].edge
    /\ LeadsFromTo(tree'[k].inner_outer_edge, m, n)
    /\ tree'[k].parent = <<AltTreeEdge(region[t].alt_tree_node, EdgeReversed(Last(tree'[region[t].alt_tree_node].children).edge))>>
    /\ tree'[region[t].alt_tree_node]
           = [tree[region[t].alt_tree_node] EXCEPT
                  !.children = Append(@, Last(tree'[region[t].alt_tree_node].children))]
    /\ Last(tree'[region[t].alt_tree_node].children).node = k
    /\ Last(tree'[region[t].alt_tree_node].children).edge \in {event.edge, EdgeReversed(event.edge)}
    /\ LeadsFromTo(Last(tree'[region[t].alt_tree_node].children).edge, t, m)
    /\ region'[m].match = <<>> /\ region'[n].match = <<>>
    /\ region'[m].alt_tree_node = k /\ region'[n].alt_tree_node = k
    /\ region'[m].radius.slope = -1 /\ region'[n].radius.slope = 1
    /\ VCall(region'[m].radius, time) = VCall(region[m].radius, time)
    /\ VCall(region'[n].radius, time) = VCall(region[n].radius, time)
    \* the growth of m was set before that of n
    /\ region'[m].shrink_event # None
    /\ \A e \in AreaSlotEvents(State', n) : e > region'[m].shrink_event

\* The step has left every region but m and n, and every tree node but the
\* one of t, as they were.
OthersUntouched(t, m, n) ==
    /\ Len(region') = Len(region)
    /\ time' = time
    /\ \A r \in (1..Len(region)) \ {m, n} :
           /\ region'[r].match = region[r].match
           /\ region'[r].alt_tree_node = region[r].alt_tree_node
           /\ region'[r].radius = region[r].radius
           /\ region'[r].blossom_parent = region[r].blossom_parent
           /\ region'[r].blossom_children = region[r].blossom_children
    /\ \A k \in (1..Len(tree)) \ {region[t].alt_tree_node} : tree'[k] = tree[k]

TreeHitsMatchEffect ==
    TreeHitsMatch =>
        /\ region[HitT].alt_tree_node # None
        /\ tree[region[HitT].alt_tree_node].outer_region = HitT
        /\ PairAddedBelow(HitT, HitM, HitN, Len(tree) + 1)
        /\ OthersUntouched(HitT, HitM, HitN)

\* C27: when an outer region T of a tree hits a region M matched to a region
\* N, processing the event adds one child node below T's node with inner
\* region M, outer region N, the former match edge from M to N as
\* inner_outer_edge and the event edge from T to M as child edge; M and N
\* end without match, M's growth is set to -1 and then N's to +1, and no
\* other region's match, tree position or growth changes.
C27_TreeHitsMatchAddsPair == [][TreeHitsMatchEffect]_vars

\* A pair has just been added to a tree, its inner region being a blossom.
C27_Witness ==
    /\ pc = "next"
    /\ tree # <<>>
    /\ event.kind = "RegionHitRegion"
    /\ Last(tree).inner_region # None
    /\ Last(tree).inner_region \in {event.region1, event.region2}
    /\ region[Last(tree).inner_region].alt_tree_node = Len(tree)
    /\ region[Last(tree).inner_region].blossom_children # <<>>


(* ---------------------------------------------------------------------- *)
(* The effect of a tree hitting itself.                                     *)
(* ---------------------------------------------------------------------- *)
TreeHitsSelf == pc = "process" /\ Handler(State, event) = "tree_hitting_self"

\* The nodes from n upward, n included, and those below node a.
RECURSIVE UpFrom(_)
UpFrom(n) ==
    {n} \cup (IF tree[n].parent = <<>> THEN {} ELSE UpFrom(tree[n].parent[1].node))

RECURSIVE UpToBelow(_, _)
UpToBelow(n, a) ==
    IF n = a THEN {} ELSE {n} \cup UpToBelow(tree[n].parent[1].node, a)

HitNode1 == region[event.region1].alt_tree_node

HitNode2 == region[event.region2].alt_tree_node

\* The most recent common ancestor of the two colliding nodes.
HitAncestor ==
    CHOOSE a \in UpFrom(HitNode1) \cap UpFrom(HitNode2) :
        \A b \in UpFrom(HitNode1) \cap UpFrom(HitNode2) : b \in UpFrom(a)

HitPathNodes == UpToBelow(HitNode1, HitAncestor) \cup UpToBelow(HitNode2, HitAncestor)

HitCycleRegions ==
    UNION {RegionsOf(n) : n \in HitPathNodes} \cup {tree[HitAncestor].outer_region}

\* The child edges that hang off the cycle: those of the ancestor and of the
\* nodes of the two paths that lead to a node outside the paths.
OffCycleChildren ==
    UNION {{c \in Range(tree[n].children) : c.node \notin HitPathNodes} :
               n \in HitPathNodes \cup {HitAncestor}}

\* The cycle is odd, holds the regions of `regions` once each and its edges
\* lead from each region to the next.
IsCycleOf(cycle, regions) ==
    /\ Len(cycle) % 2 = 1
    /\ Len(cycle) = Cardinality(regions)
    /\ {cycle[i].region : i \in 1..Len(cycle)} = regions
    /\ \A i \in 1..Len(cycle) :
           LeadsFromTo(cycle[i].edge, cycle[i].region, cycle[(i % Len(cycle)) + 1].region)

\* The step has put blossom b in the place of the outer region of node a.
BlossomTakesNode(a, b) ==
    /\ err' = ""
    /\ Len(region') = Len(region) + 1
    /\ Len(tree') = Len(tree)
    /\ tree'[a].inner_region = tree[a].inner_region
    /\ tree'[a].parent = tree[a].parent
    /\ tree'[a].inner_outer_edge = tree[a].inner_outer_edge
    /\ tree'[a].outer_region = b
    /\ region'[b].alt_tree_node = a
    /\ Len(tree'[a].children) = Cardinality(OffCycleChildren)
    /\ Range(tree'[a].children) = OffCycleChildren
    /\ \A c \in OffCycleChildren :
           /\ tree'[c.node].parent = <<AltTreeEdge(a, EdgeReversed(c.edge))>>
           /\ tree'[c.node].children = tree[c.node].children

TreeHitsSelfEffect ==
    TreeHitsSelf =>
        /\ BlossomCallNow.cycle = region'[Len(region')].blossom_children
        /\ IsCycleOf(BlossomCallNow.cycle, HitCycleRegions)
        /\ BlossomTakesNode(HitAncestor, Len(region) + 1)

\* C28: when a RegionHitRegion event joins two outer regions of one tree,
\* the cycle passed to create_blossom is odd and holds, once each, the inner
\* and outer regions of the nodes of the two upward paths below the most
\* recent common ancestor and the ancestor's outer region, each entry's
\* edge leading from a source of its region to a source of the next;
\* afterwards the ancestor keeps its inner region and parent, has the new
\* blossom as outer region, and has as children its former children off the
\* cycle and the subtrees orphaned from the pruned paths.
C28_TreeHitsSelfMakesBlossom == [][TreeHitsSelfEffect]_vars

\* The tree is about to hit itself below an ancestor that is not the root.
C28_Witness ==
    /\ TreeHitsSelf
    /\ tree[HitAncestor].parent # <<>>
    /\ Cardinality(HitCycleRegions) >= 3


(* ---------------------------------------------------------------------- *)
(* The effect of a blossom imploding.                                       *)
(* ---------------------------------------------------------------------- *)
BlossomImplodes == pc = "process" /\ Handler(State, event) = "blossom_imploding"

ImplodingCycle == region[event.region1].blossom_children

\* The region at position i of the cycle, counted cyclically.
CycleRegion(i) == ImplodingCycle[((i - 1) % Len(ImplodingCycle)) + 1].region

PositionOf(r) == CHOOSE i \in 1..Len(ImplodingCycle) : ImplodingCycle[i].region = r

\* The steps along the cycle from P to C.
StepsForward ==
    (PositionOf(event.in_child_region) - PositionOf(event.in_parent_region)
         + Len(ImplodingCycle)) % Len(ImplodingCycle)

\* The path from P to C with an odd number of regions: along the cycle if
\* that takes an even number of steps, against it otherwise.
OddPath ==
    IF StepsForward % 2 = 0
    THEN [j \in 1..(StepsForward + 1) |->
              CycleRegion(PositionOf(event.in_parent_region) + j - 1)]
    ELSE [j \in 1..(Len(ImplodingCycle) - StepsForward + 1) |->
              CycleRegion(PositionOf(event.in_parent_region) + Len(ImplodingCycle) - (j - 1))]

RestOfCycle == {ImplodingCycle[i].region : i \in 1..Len(ImplodingCycle)} \ Range(OddPath)

NextOnCycle(r1, r2) ==
    \/ CycleRegion(PositionOf(r1) + 1) = r2
    \/ CycleRegion(PositionOf(r2) + 1) = r1

\* The node that held the blossom, and the node above it.
ImplodingNode == region[event.region1].alt_tree_node

NodeAbove == tree[ImplodingNode].parent[1].node

\* The step has spliced the regions of `odds` between node `above` and the
\* outer region of node x, the last of them as the inner region of x.
SplicedBetween(odds, above, x) ==
    /\ err' = ""
    /\ odds[1] = event.in_parent_region
    /\ odds[Len(odds)] = event.in_child_region
    /\ region'[odds[Len(odds)]].alt_tree_node = x
    /\ tree'[x].outer_region = tree[x].outer_region
    /\ tree'[x].children = tree[x].children
    /\ region'[tree[x].outer_region] = region[tree[x].outer_region]
    /\ {tree'[above].children[i].node : i \in 1..Len(tree'[above].children)}
           = ({tree[above].children[i].node : i \in 1..Len(tree[above].children)} \ {x})
                \cup {region'[odds[1]].alt_tree_node}
    /\ \A j \in 1..Len(odds) :
           LET n == region'[odds[j]].alt_tree_node
           IN  /\ n # None
               /\ VCall(region'[odds[j]].radius, time) = VCall(region[odds[j]].radius, time)
               /\ region'[odds[j]].match = <<>>
               /\ IF j % 2 = 1
                  THEN /\ tree'[n].inner_region = odds[j]
                       /\ region'[odds[j]].radius.slope = -1
                       /\ tree'[n].parent # <<>>
                       /\ tree'[n].parent[1].node
                              = (IF j = 1 THEN above ELSE region'[odds[j - 1]].alt_tree_node)
                       /\ LeadsFromTo(tree'[n].parent[1].edge, odds[j],
                                      tree'[tree'[n].parent[1].node].outer_region)
                       /\ \E i \in 1..Len(tree'[tree'[n].parent[1].node].children) :
                              tree'[tree'[n].parent[1].node].children[i]
                                  = AltTreeEdge(n, EdgeReversed(tree'[n].parent[1].edge))
                       /\ LeadsFromTo(tree'[n].inner_outer_edge, odds[j], tree'[n].outer_region)
                  ELSE /\ tree'[n].outer_region = odds[j]
                       /\ region'[odds[j]].radius.slope = 1
                       /\ n = region'[odds[j - 1]].alt_tree_node
                       /\ Len(tree'[n].children) = 1

\* The step has matched the regions of `rest` in pairs of neighbours on the
\* cycle and frozen them.
MatchedInPairs(rest) ==
    \A r \in rest :
        /\ region'[r].match # <<>>
        /\ region'[r].match[1].region \in rest
        /\ NextOnCycle(r, region'[r].match[1].region)
        /\ region'[region'[r].match[1].region].match # <<>>
        /\ region'[region'[r].match[1].region].match[1].region = r
        /\ LeadsFromTo(region'[r].match[1].edge, r, region'[r].match[1].region)
        /\ region'[r].radius.slope = 0
        /\ VCall(region'[r].radius, time) = VCall(region[r].radius, time)
        /\ region'[r].alt_tree_node = None

BlossomImplodesEffect ==
    BlossomImplodes =>
        /\ ImplodingNode # None
        /\ tree[ImplodingNode].inner_region = event.region1
        /\ Len(OddPath) % 2 = 1
        /\ SplicedBetween(OddPath, NodeAbove, ImplodingNode)
        /\ MatchedInPairs(RestOfCycle)
        /\ region'[event.region1].alt_tree_node = None

\* C29: when a blossom that is the inner region of a tree node implodes
\* with touch regions P and C, its children on the odd path of the cycle
\* from P to C are spliced into the tree between the former parent node of
\* the blossom and its former outer region, in turn inner (growth -1) and
\* outer (growth +1), P the first inner region and C the inner region of the
\* node that held the blossom; the other children are matched in
\* consecutive pairs along the cycle and frozen at slope 0; the blossom
\* keeps no tree node.
C29_ImplosionSplicesOddPath == [][BlossomImplodesEffect]_vars

\* A blossom implodes that its parent and its outer region touch in the
\* same child: that child alone is spliced in and the other two are matched.
C29_Witness ==
    /\ BlossomImplodes
    /\ Len(OddPath) = 1
    /\ Cardinality(RestOfCycle) = 2


(* ---------------------------------------------------------------------- *)
(* The effect of two trees colliding.                                       *)
(* ---------------------------------------------------------------------- *)
TreesCollide == pc = "process" /\ Handler(State, event) = "tree_hitting_other_tree"

\* The nodes of the tree that node c belongs to.
TreeOf(c) == {n \in NodesInUse : UpFrom(n) \cap UpFrom(c) # {}}

CollidingTrees == TreeOf(HitNode1) \cup TreeOf(HitNode2)

CollidingTreeRegions == UNION {RegionsOf(n) : n \in CollidingTrees}

\* The pairs of regions that share a node once the tree of c is re-rooted
\* at c: the nodes off the path from c to the root keep their two regions,
\* and each node above c on that path takes over the inner region of the
\* node below it.
PairsRerootedAt(c) ==
    {<<tree[n].inner_region, tree[n].outer_region>> : n \in TreeOf(c) \ UpFrom(c)}
    \cup {<<tree[m].inner_region, tree[tree[m].parent[1].node].outer_region>> :
              m \in {k \in UpFrom(c) : tree[k].parent # <<>>}}

ExpectedPairs ==
    PairsRerootedAt(HitNode1) \cup PairsRerootedAt(HitNode2)
        \cup {<<event.region1, event.region2>>}

MatchedTo(r1, r2) ==
    /\ region'[r1].match # <<>>
    /\ region'[r1].match[1].region = r2
    /\ LeadsFromTo(region'[r1].match[1].edge, r1, r2)

RegionKept(r) ==
    /\ region'[r].match = region[r].match
    /\ region'[r].radius = region[r].radius
    /\ region'[r].alt_tree_node = region[r].alt_tree_node
    /\ region'[r].blossom_parent = region[r].blossom_parent
    /\ region'[r].blossom_children = region[r].blossom_children

TreesCollideEffect ==
    TreesCollide =>
        /\ err' = ""
        /\ Len(region') = Len(region)
        /\ tree[HitNode1].outer_region = event.region1
        /\ tree[HitNode2].outer_region = event.region2
        /\ region'[event.region1].match = <<Match(event.region2, event.edge)>>
        /\ region'[event.region2].match = <<Match(event.region1, EdgeReversed(event.edge))>>
        /\ \A pair \in ExpectedPairs :
               MatchedTo(pair[1], pair[2]) /\ MatchedTo(pair[2], pair[1])
        /\ CollidingTreeRegions = UNION {{pair[1], pair[2]} : pair \in ExpectedPairs}
        /\ \A r \in CollidingTreeRegions :
               /\ region'[r].radius.slope = 0
               /\ VCall(region'[r].radius, time) = VCall(region[r].radius, time)
               /\ region'[r].match # <<>>
               /\ region'[r].alt_tree_node = None
        /\ \A r \in (1..Len(region)) \ CollidingTreeRegions : RegionKept(r)

\* C30: when outer regions of two different trees collide, the two regions
\* end matched to each other by the edge of the event, every other region
\* of the two trees ends matched to the region it shares a tree node with
\* once both trees are re-rooted at the colliding nodes, every region of the
\* two trees ends with slope 0, a match and no tree node, and the regions
\* outside the two trees are unchanged.
C30_TreesCollideIntoMatches == [][TreesCollideEffect]_vars

\* Two trees collide, one of them at a node that is not its root.
C30_Witness ==
    /\ TreesCollide
    /\ tree[HitNode1].parent # <<>> \/ tree[HitNode2].parent # <<>>
    /\ Cardinality(CollidingTreeRegions) >= 4


(* ---------------------------------------------------------------------- *)
(* The effect of a tree hitting the boundary.                               *)
(* ---------------------------------------------------------------------- *)
TreeHitsBoundary == pc = "process" /\ Handler(State, event) = "tree_hitting_boundary"

\* The matches expected of the tree of node c once it is re-rooted at c, as
\* triples <<inner region, outer region, edge from inner to outer>>: a node
\* off the path from c to the root keeps its pair and its inner_outer_edge,
\* a node above c on the path takes the inner region of the node below it
\* over that node's parent edge.
MatchesRerootedAt(c) ==
    {<<tree[n].inner_region, tree[n].outer_region, tree[n].inner_outer_edge>> :
         n \in TreeOf(c) \ UpFrom(c)}
    \cup {<<tree[m].inner_region, tree[tree[m].parent[1].node].outer_region,
            tree[m].parent[1].edge>> :
              m \in {k \in UpFrom(c) : tree[k].parent # <<>>}}

TreeRegions(c) == UNION {RegionsOf(n) : n \in TreeOf(c)}

MatchedBy(triple) ==
    /\ region'[triple[1]].match = <<Match(triple[2], triple[3])>>
    /\ region'[triple[2]].match = <<Match(triple[1], EdgeReversed(triple[3]))>>
    /\ LeadsFromTo(triple[3], triple[1], triple[2])

TreeHitsBoundaryEffect ==
    TreeHitsBoundary =>
        /\ err' = ""
        /\ Len(region') = Len(region)
        /\ HitNode1 # None
        /\ tree[HitNode1].outer_region = event.region1
        /\ region'[event.region1].match = <<Match(None, event.edge)>>
        /\ event.edge.loc_from \in SourcesIn(event.region1)
        /\ \A triple \in MatchesRerootedAt(HitNode1) : MatchedBy(triple)
        /\ TreeRegions(HitNode1)
               = {event.region1}
                   \cup UNION {{triple[1], triple[2]} : triple \in MatchesRerootedAt(HitNode1)}
        /\ \A r \in TreeRegions(HitNode1) :
               /\ region'[r].radius.slope = 0
               /\ VCall(region'[r].radius, time) = VCall(region[r].radius, time)
               /\ region'[r].match # <<>>
               /\ region'[r].alt_tree_node = None
        /\ \A r \in (1..Len(region)) \ TreeRegions(HitNode1) : RegionKept(r)

\* C31: when an outer region R of a tree hits the boundary, R ends matched
\* to the boundary by the edge of the event and every other region of the
\* tree ends matched within the (inner, outer) pairs of the tree re-rooted
\* at R's node, each pair by the inner_outer_edge of its node; afterwards
\* every region of the tree has slope 0, a match and no tree node, and no
\* region outside the tree is changed.
C31_TreeHitsBoundaryIntoMatches == [][TreeHitsBoundaryEffect]_vars

\* A tree hits the boundary at a node that is not its root.
C31_Witness ==
    /\ TreeHitsBoundary
    /\ tree[HitNode1].parent # <<>>


(* ---------------------------------------------------------------------- *)
(* A shrinking region that reaches radius 0.                                *)
(* ---------------------------------------------------------------------- *)
\* The region whose shrink event next_event is about to apply.
ShrinkingRegion == events[HeapTop(heap)].region

\* next_event is about to apply the shrink event of a region that is not a
\* blossom and holds nothing but its source.
SourceAboutToLeave ==
    /\ pc = "next"
    /\ heap # <<>>
    /\ ~events[HeapTop(heap)].is_invalidated
    /\ events[HeapTop(heap)].kind = "shrink"
    /\ region[ShrinkingRegion].blossom_children = <<>>
    /\ region[ShrinkingRegion].shell_area = <<region[ShrinkingRegion].source>>

\* The reversed parent edge of node n followed by its inner_outer_edge.
EdgeAround(n) ==
    CompressedEdge(tree[n].parent[1].edge.loc_to, tree[n].inner_outer_edge.loc_to,
                   Xor(tree[n].parent[1].edge.obs_mask, tree[n].inner_outer_edge.obs_mask),
                   tree[n].parent[1].edge.distance + tree[n].inner_outer_edge.distance)

\* The step reports a collision at the time of the shrink event.
ReportsCollision ==
    /\ pc' = "process"
    /\ err' = ""
    /\ event'.kind = "RegionHitRegion"
    /\ event'.time = time'

\* The collision is reported from the outer region above node n to the
\* outer region of n, over EdgeAround(n).
ReportedAsGiven(n) ==
    /\ event'.region1 = tree[tree[n].parent[1].node].outer_region
    /\ event'.region2 = tree[n].outer_region
    /\ event'.edge = EdgeAround(n)

\* The collision is reported the other way round, over EdgeAround(n)
\* reversed.
ReportedSwapped(n) ==
    /\ event'.region1 = tree[n].outer_region
    /\ event'.region2 = tree[tree[n].parent[1].node].outer_region
    /\ event'.edge = EdgeReversed(EdgeAround(n))

\* The step leaves region r, its node and the trees as they are.
LeftInPlace(r) ==
    /\ VCall(region[r].radius, time') = 0
    /\ region' = region
    /\ tree' = tree
    /\ node' = node
    /\ node[region[r].source].region_that_arrived = r

\* What holds of every such step, whichever way round it is reported.
SourceAboutToLeaveFrame ==
    /\ region[ShrinkingRegion].radius.slope < 0
    /\ region[ShrinkingRegion].alt_tree_node # None
    /\ tree[region[ShrinkingRegion].alt_tree_node].inner_region = ShrinkingRegion
    /\ tree[region[ShrinkingRegion].alt_tree_node].parent[1].edge.loc_from
           = tree[region[ShrinkingRegion].alt_tree_node].inner_outer_edge.loc_from
    /\ ReportsCollision
    /\ LeadsFromTo(event'.edge, event'.region1, event'.region2)
    /\ LeftInPlace(ShrinkingRegion)

PathRegions(path) == [k \in 1..Len(path) |-> path[k].region]

\* Position of region r on the cycle of blossom b.
CyclePosition(b, r) == IndexOfRegion(region[b].blossom_children, r)

\* The path walks the cycle of blossom b forwards, an element at a time.
WalksForward(b, path) ==
    \A k \in 1..(Len(path) - 1) :
        CyclePosition(b, path[k + 1].region) = CycleNext(b, CyclePosition(b, path[k].region))

\* The path walks the cycle of blossom b backwards, an element at a time.
WalksBackward(b, path) ==
    \A k \in 1..(Len(path) - 1) :
        CyclePosition(b, path[k].region) = CycleNext(b, CyclePosition(b, path[k + 1].region))

\* Every edge between two elements of the path leads from the one to the
\* other.
OrientedAlong(path) ==
    \A k \in 1..(Len(path) - 1) :
        LeadsFromTo(path[k].edge, path[k].region, path[k + 1].region)

\* The elements of the path are elements of the cycle of blossom b, edge
\* included.
TakenFromCycle(b, path) ==
    \A k \in 1..Len(path) :
        path[k] = region[b].blossom_children[CyclePosition(b, path[k].region)]

\* What split_between_regions returns for the cycle of blossom b.
SplitIsSound(b, start_region, end_region) ==
    LET split == split_between_regions(region[b].blossom_children, start_region, end_region)
        odds  == split[1]
        evens == split[2]
    IN  /\ Len(odds) % 2 = 1
        /\ odds[1].region = start_region
        /\ odds[Len(odds)].region = end_region
        /\ WalksForward(b, odds) \/ WalksBackward(b, odds)
        /\ OrientedAlong(odds)
        /\ Len(evens) % 2 = 0
        /\ WalksForward(b, evens)
        /\ TakenFromCycle(b, evens)
        /\ OrientedAlong(evens)
        /\ Range(PathRegions(odds)) \cup Range(PathRegions(evens))
               = Range(PathRegions(region[b].blossom_children))
        /\ Len(odds) + Len(evens) = Len(region[b].blossom_children)

\* C33: for a cycle of odd length and any two of its regions start and end
\* (possibly the same), split_between_regions returns an odd-length path
\* from start to end that follows the cycle in one direction with its edges
\* oriented along the path, and an even-length path in cycle order; together
\* they hold exactly the regions of the cycle, none twice.
C33_SplitBetweenRegions ==
    \A b \in Blossoms :
        /\ OddCycle(b)
        /\ \A start_region, end_region \in Range(PathRegions(region[b].blossom_children)) :
               SplitIsSound(b, start_region, end_region)

\* A cycle of five regions is split against its direction: the odd path
\* has three regions and is the reversed one, the even path has two.
C33_Witness ==
    \E b \in Blossoms :
        /\ Len(region[b].blossom_children) = 5
        /\ \E start_region, end_region \in Range(PathRegions(region[b].blossom_children)) :
               LET split == split_between_regions(region[b].blossom_children,
                                                  start_region, end_region)
               IN  /\ Len(split[1]) = 3
                   /\ split[1][3].edge = NoEdge
                   /\ ~WalksForward(b, split[1])
                   /\ Len(split[2]) = 2


\* The two paths split_between_regions returns for the cycle of blossom b.
SplitOf(b, start_region, end_region) ==
    split_between_regions(region[b].blossom_children, start_region, end_region)

\* The regions of the cycle of blossom b.
CycleRegions(b) == Range(PathRegions(region[b].blossom_children))

\* seq is the cycle c started at some position.
IsRotationOf(seq, c) ==
    /\ Len(seq) = Len(c)
    /\ \E k \in 0..(Len(c) - 1) : \A m \in 1..Len(c) : seq[m] = c[((m - 1 + k) % Len(c)) + 1]

\* The regions of the odd path, taken in the direction of the cycle, and
\* then those of the even path.
OddThenEven(b, split) ==
    (IF WalksForward(b, split[1]) THEN PathRegions(split[1])
     ELSE Reversed(PathRegions(split[1]))) \o PathRegions(split[2])

TopMatched ==
    {r \in LiveTopRegions : region[r].match # <<>>}

\* The regions to_subblossom_matches(r) flattens: r, its peer and all the
\* regions nested in them.
FlattenedBy(r) ==
    RegionsWithin(State, r)
        \cup (IF region[r].match[1].region = None THEN {}
              ELSE RegionsWithin(State, region[r].match[1].region))

LeavesOf(regions) == {x \in regions : region[x].blossom_children = <<>>}

\* The leaf that holds detector n, None for the boundary.
LeafAt(n) == IF n = None THEN None ELSE CHOOSE x \in 1..Len(region) : region[x].source = n

\* The regions of one resulting match of the state t: m and its peer.
MatchPair(t, m) == {m, t.region[m].match[1].region} \ {None}

\* Leaves x and y lie in two neighbouring children of the cycle of one blossom.
CycleNeighbours(x, y) ==
    \E b \in Blossoms :
        \E i \in 1..Len(region[b].blossom_children) :
            LET c1 == region[b].blossom_children[i].region
                c2 == region[b].blossom_children[CycleNext(b, i)].region
            IN  \/ x \in RegionsWithin(State, c1) /\ y \in RegionsWithin(State, c2)
                \/ y \in RegionsWithin(State, c1) /\ x \in RegionsWithin(State, c2)

\* What to_subblossom_matches(r) leaves behind, t.s the state and t.out
\* the regions it returns.
FlattenedIntoMatches(r, t) ==
    LET leaves == LeavesOf(FlattenedBy(r))
        edge   == region[r].match[1].edge
        first  == LeafAt(edge.loc_from)
        second == LeafAt(edge.loc_to)
    IN  /\ t.s.err = ""
        /\ \A k \in 1..Len(t.out) : t.out[k] \in leaves /\ t.s.region[t.out[k]].match # <<>>
        \* each leaf in exactly one resulting match
        /\ \A x \in leaves :
               Cardinality({k \in 1..Len(t.out) : x \in MatchPair(t.s, t.out[k])}) = 1
        /\ \A k \in 1..Len(t.out) : MatchPair(t.s, t.out[k]) \subseteq leaves
        \* a match is held by both of its regions
        /\ \A x \in leaves :
               /\ t.s.region[x].match # <<>>
               /\ t.s.region[x].match[1].edge.loc_from = region[x].source
               /\ t.s.region[x].match[1].region = LeafAt(t.s.region[x].match[1].edge.loc_to)
               /\ t.s.region[x].match[1].region # None =>
                      t.s.region[t.s.region[x].match[1].region].match
                          = <<Match(x, EdgeReversed(t.s.region[x].match[1].edge))>>
        \* the original match edge, on the leaves of its endpoints
        /\ first \in leaves
        /\ t.s.region[first].match = <<Match(second, edge)>>
        /\ (region[r].match[1].region = None) = (second = None)
        \* every other leaf, with a neighbour of its own blossom
        /\ \A x \in leaves \ {first, second} :
               /\ t.s.region[x].match[1].region # None
               /\ CycleNeighbours(x, t.s.region[x].match[1].region)
        \* nothing of the blossoms is left
        /\ \A x \in FlattenedBy(r) :
               /\ t.s.region[x].blossom_parent = None
               /\ t.s.region[x].blossom_children = <<>>

\* C35: for a top-level region matched to a peer or to the boundary,
\* to_subblossom_matches flattens every nested blossom on both sides: each
\* leaf region appears in exactly one resulting match, the original match
\* edge is held by the leaves of its endpoints, every other leaf is matched
\* to a cycle neighbour inside its own blossom, and no flattened region
\* keeps a blossom_parent or blossom_children.
C35_SubblossomMatchesCoverLeaves ==
    pc = "extract" =>
        \A r \in TopMatched : FlattenedIntoMatches(r, to_subblossom_matches(State, r))

\* A matched region holding a blossom inside a blossom is about to be
\* flattened.
C35_Witness ==
    /\ pc = "extract"
    /\ \E r \in TopMatched :
           /\ \E x \in FlattenedBy(r) :
                  /\ region[x].blossom_children # <<>>
                  /\ region[x].blossom_parent # None
           /\ to_subblossom_matches(State, r).s.err = ""
           /\ Len(to_subblossom_matches(State, r).out) >= 3


(* ---------------------------------------------------------------------- *)
(* AltTreeNode.become_root applied to the nodes of the trees.               *)
(* ---------------------------------------------------------------------- *)
\* The regions held by a set of nodes of the trees t.
RegionsHeld(t, nodes) ==
    UNION {{t[n].inner_region, t[n].outer_region} \ {None} : n \in nodes}

\* The nodes below n, n excluded, on its way up: UpFrom(c) without its root.
BelowRootFrom(c) == {n \in UpFrom(c) : tree[n].parent # <<>>}

\* The trees after c.become_root(), r the state it leaves.
RerootedAt(c, r) ==
    /\ r.err = ""
    /\ r.tree[c].inner_region = None
    /\ r.tree[c].parent = <<>>
    /\ \A n \in TreeOf(c) : find_root(r, n) = c
    /\ RegionsHeld(r.tree, TreeOf(c)) = RegionsHeld(tree, TreeOf(c))
    /\ \A n \in TreeOf(c) : r.tree[n].outer_region = tree[n].outer_region
    /\ \A n \in TreeOf(c) \ UpFrom(c) :
           /\ r.tree[n].inner_region = tree[n].inner_region
           /\ r.tree[n].children = tree[n].children
           /\ r.tree[n].parent = tree[n].parent
    /\ \A n \in BelowRootFrom(c) :
           /\ r.tree[tree[n].parent[1].node].inner_region = tree[n].inner_region
           /\ r.tree[tree[n].parent[1].node].parent # <<>>
           /\ r.tree[tree[n].parent[1].node].parent[1].node = n
           /\ Cardinality({k \in 1..Len(r.tree[n].children) :
                              r.tree[n].children[k].node = tree[n].parent[1].node}) = 1
           /\ \A k \in 1..Len(r.tree[tree[n].parent[1].node].children) :
                  r.tree[tree[n].parent[1].node].children[k].node # n
    /\ \A n \in 1..Len(tree) : n \notin TreeOf(c) => r.tree[n] = tree[n]
    /\ r.region = region

\* C36: become_root() on any node c of a tree makes c the root, with no
\* inner region and no parent, and find_root() of every node of the tree
\* returns c; the regions of the tree stay the same; every node off the
\* path from c to the old root keeps its inner region, outer region and
\* children; along the path the former inner region of each node becomes
\* the inner region of its former parent, which becomes its child.
C36_BecomeRootRotatesThePath ==
    Decoding => \A c \in NodesInUse : RerootedAt(c, become_root(State, c))

\* A node two levels below its root is made the root and takes its former
\* parent as a child.
C36_Witness ==
    /\ Decoding
    /\ \E c \in NodesInUse :
           /\ Cardinality(BelowRootFrom(c)) = 2
           /\ become_root(State, c).tree[c].parent = <<>>
           /\ Len(become_root(State, c).tree[c].children) >= 1


(* ---------------------------------------------------------------------- *)
(* The edges of the alternating trees.                                      *)
(* ---------------------------------------------------------------------- *)
\* In the trees t, the parent edge of node n runs from n's inner region to
\* the outer region of its parent.
ParentEdgeRunsUp(t, n) ==
    LeadsFromTo(t[n].parent[1].edge, t[n].inner_region,
                t[t[n].parent[1].node].outer_region)

\* In the trees t, the parent of n holds n as a child, once, over the
\* reverse of n's parent edge.
ChildEdgeIsReverse(t, n) ==
    /\ Cardinality({k \in 1..Len(t[t[n].parent[1].node].children) :
                       t[t[n].parent[1].node].children[k].node = n}) = 1
    /\ \E k \in 1..Len(t[t[n].parent[1].node].children) :
           t[t[n].parent[1].node].children[k]
               = AltTreeEdge(n, EdgeReversed(t[n].parent[1].edge))

\* In the trees t, the inner_outer_edge of n runs from its inner region to
\* its outer region.
InnerOuterEdgeRunsOut(t, n) ==
    LeadsFromTo(t[n].inner_outer_edge, t[n].inner_region, t[n].outer_region)

\* The three hold of every node of the set that has a parent.
EdgesRunRight(t, nodes) ==
    \A n \in nodes :
        t[n].parent # <<>> =>
            /\ t[n].inner_region # None
            /\ ParentEdgeRunsUp(t, n)
            /\ ChildEdgeIsReverse(t, n)
            /\ InnerOuterEdgeRunsOut(t, n)

\* C37 (the handlers of the decode): after every processed event, every
\* tree node n that is not a root has n.parent.edge running from a detector
\* in n's inner region to a detector in the parent's outer region, the
\* parent's child edge for n is exactly its reverse, and n.inner_outer_edge
\* runs from n's inner region to n's outer region.
C37_TreeEdgesAfterEveryEvent ==
    pc = "next" => EdgesRunRight(tree, NodesInUse)

\* C37: after every tree mutation, become_root() included, every tree node
\* n that is not a root has n.parent.edge running from a detector in n's
\* inner region to a detector in the parent's outer region, the parent's
\* child edge for n is exactly its reverse, and n.inner_outer_edge runs from
\* n's inner region to n's outer region.
C37_TreeEdgesAfterEveryMutation ==
    pc = "next" =>
        /\ EdgesRunRight(tree, NodesInUse)
        /\ \A c \in NodesInUse : EdgesRunRight(become_root(State, c).tree, TreeOf(c))

\* C37 (become_root): after c.become_root(), every node n of the tree that
\* is not the root has n.inner_outer_edge running from n's inner region to
\* n's outer region and is held once by its parent, over the reverse of
\* n.parent.edge; n.parent.edge runs from n's inner region to the parent's
\* outer region for the nodes off the rotated path, and from the parent's
\* outer region to n's inner region for the nodes whose parent used to be
\* their child.
C37_BecomeRootTurnsParentEdges ==
    pc = "next" =>
        \A c \in NodesInUse :
            \A n \in TreeOf(c) \ {c} :
                /\ become_root(State, c).tree[n].parent # <<>>
                /\ become_root(State, c).tree[n].inner_region # None
                /\ ChildEdgeIsReverse(become_root(State, c).tree, n)
                /\ InnerOuterEdgeRunsOut(become_root(State, c).tree, n)
                /\ IF n \in UpFrom(c)
                   THEN LeadsFromTo(
                            EdgeReversed(become_root(State, c).tree[n].parent[1].edge),
                            become_root(State, c).tree[n].inner_region,
                            tree[become_root(State, c).tree[n].parent[1].node].outer_region)
                   ELSE ParentEdgeRunsUp(become_root(State, c).tree, n)

\* Between two events a tree holds a node two levels below its root, whose
\* rotation to the root turns two parent edges.
C37_Witness ==
    /\ pc = "next"
    /\ \E c \in NodesInUse :
           /\ Cardinality(BelowRootFrom(c)) = 2
           /\ become_root(State, c).err = ""
           /\ \E n \in UpFrom(c) \ {c} : ~ParentEdgeRunsUp(become_root(State, c).tree, n)


(* ---------------------------------------------------------------------- *)
(* The collisions next_event reports.                                       *)
(* ---------------------------------------------------------------------- *)
\* The radius of region r and of the blossoms around it, at the current time.
RECURSIVE RadiusAround(_)
RadiusAround(r) ==
    RadiusNow(r) + (IF region[r].blossom_parent = None THEN 0
                    ELSE RadiusAround(region[r].blossom_parent))

\* The cumulative radius of the detection event at detector n.
SourceRadius(n) == RadiusAround(LeafAt(n))

\* next_event has just returned the event of this kind.
JustReported(kind) == pc = "process" /\ event.kind = kind

\* The collision of two regions is tight.  Radii are counted in halves of
\* the unit of the distances.
RegionCollisionTight ==
    /\ event.time = time
    /\ event.region1 # event.region2
    /\ LeadsFromTo(event.edge, event.region1, event.region2)
    /\ 2 * event.edge.distance = SourceRadius(event.edge.loc_from) + SourceRadius(event.edge.loc_to)

\* The collision of a region with the boundary is tight.
BoundaryCollisionTight ==
    /\ event.time = time
    /\ event.edge.loc_from \in SourcesIn(event.region1)
    /\ event.edge.loc_to = None
    /\ 2 * event.edge.distance = SourceRadius(event.edge.loc_from)

AcrossSlot(u, i) == graph.nodes[u].neighbors_with_boundary[i]

\* How far the region of u may reach into slot i: the whole edge when
\* nobody holds the far end (or it is the boundary), what the owner of the
\* far end leaves of it when that is another top-level region.  Radii are
\* counted in halves of the unit of the weights.
RoomInSlot(u, i) ==
    IF AcrossSlot(u, i) = None THEN 2 * graph.nodes[u].distances[i]
    ELSE IF node[AcrossSlot(u, i)].region_that_arrived = None
    THEN 2 * graph.nodes[u].distances[i]
    ELSE 2 * graph.nodes[u].distances[i] - LocalRadiusNow(AcrossSlot(u, i))

\* Slot i of node u leads out of the top-level region that holds u.
LeadsOut(u, i) ==
    \/ AcrossSlot(u, i) = None
    \/ ~has_same_owner_as(State, u, AcrossSlot(u, i))

CleanFields(g) ==
    [dist |-> [n \in 1..Len(g.nodes) |-> NoDistance],
     pred |-> [n \in 1..Len(g.nodes) |-> None]]

\* A faulty _cleanup_searched_nodes that resets search_predecessor and
\* leaves distance_from_search_source; C40 is tested against it.
cleanup_searched_predecessors(fields, explored) ==
    [dist |-> fields.dist,
     pred |-> [n \in DOMAIN fields.pred |->
                  IF n \in Range(explored) THEN None ELSE fields.pred[n]]]

\* _cleanup_searched_nodes
cleanup_searched_nodes(fields, explored) ==
    [dist |-> [n \in DOMAIN fields.dist |->
                  IF n \in Range(explored) THEN NoDistance ELSE fields.dist[n]],
     pred |-> [n \in DOMAIN fields.pred |->
                  IF n \in Range(explored) THEN None ELSE fields.pred[n]]]

\* "if v is not None and v.distance_from_search_source is None:
\* explored.append(v)", over the slots of cur from i on.
RECURSIVE ExploreNeighbors(_, _, _, _, _, _, _)
ExploreNeighbors(g, e, st, cur, distance, i, explored) ==
    IF i > Len(g.nodes[cur].neighbors) THEN [st |-> st, explored |-> explored]
    ELSE ExploreNeighbors(
             g, e, PushNeighbor(g, e, st, cur, distance, i), cur, distance, i + 1,
             IF g.nodes[cur].neighbors_with_boundary[i] # None
                    /\ st.dist[g.nodes[cur].neighbors_with_boundary[i]] = NoDistance
             THEN Append(explored, g.nodes[cur].neighbors_with_boundary[i])
             ELSE explored)

\* What a call leaves: the exception if any, the path, the fields.
Expanded(what, path, fields) == [err |-> what, path |-> path, fields |-> fields]

\* The loop "while heapq:" with the list of explored nodes; a break goes
\* through _cleanup_searched_nodes, an exception does not.
RECURSIVE ExpandLoop(_, _, _, _)
ExpandTurn(g, e, st, explored, top) ==
    IF top[3] # None /\ top[1] # st.dist[top[3]] THEN ExpandLoop(g, e, st, explored)
    ELSE IF top[3] = None /\ top[1] # st.boundary_distance THEN ExpandLoop(g, e, st, explored)
    ELSE IF top[3] = None /\ e.loc_to = None
    THEN Expanded("",
             Append(path_from_predecessors(g, st.pred, st.boundary_predecessor),
                    CompressedEdge(st.boundary_predecessor, None,
                        g.nodes[st.boundary_predecessor].observables[
                            min_edge_to_boundary(g, st.boundary_predecessor)],
                        g.nodes[st.boundary_predecessor].distances[
                            min_edge_to_boundary(g, st.boundary_predecessor)])),
             cleanup_searched_nodes([dist |-> st.dist, pred |-> st.pred], explored))
    ELSE IF top[3] = e.loc_to /\ top[3] # None
    THEN IF top[1] # e.distance
         THEN Expanded("AssertionError: to_path", <<>>, [dist |-> st.dist, pred |-> st.pred])
         ELSE Expanded("", path_from_predecessors(g, st.pred, top[3]),
                  cleanup_searched_nodes([dist |-> st.dist, pred |-> st.pred], explored))
    ELSE IF top[3] = None
    THEN Expanded("AttributeError: to_path", <<>>, [dist |-> st.dist, pred |-> st.pred])
    ELSE LET scan == ExploreNeighbors(g, e, st, top[3], top[1], 1, explored)
         IN  ExpandLoop(g, e, scan.st, scan.explored)

ExpandLoop(g, e, st, explored) ==
    IF st.queue = {}
    THEN Expanded("IndexError: index out of range", <<>>, [dist |-> st.dist, pred |-> st.pred])
    ELSE ExpandTurn(g, e, [st EXCEPT !.queue = @ \ {QueueMin(st.queue)}], explored,
                    QueueMin(st.queue))

\* "current_node.distance_from_search_source = 0" on the fields as they are
ExpandStart(g, e, fields) ==
    [SearchStart(g, e) EXCEPT !.dist = [fields.dist EXCEPT ![e.loc_from] = 0],
                              !.pred = fields.pred]

\* CompressedEdge.to_path on nodes whose search fields are `fields`
to_path_on(g, e, fields) ==
    IF e.loc_from = None /\ e.loc_to = None THEN Expanded("ValueError: to_path", <<>>, fields)
    ELSE IF e.loc_from = None
    THEN LET r == ExpandLoop(g, EdgeReversed(e), ExpandStart(g, EdgeReversed(e), fields),
                             <<e.loc_to>>)
         IN  Expanded(r.err, ReversedPath(r.path), r.fields)
    ELSE ExpandLoop(g, e, ExpandStart(g, e, fields), <<e.loc_from>>)

\* The match edges the decode has returned.
MatchEdges == Range(result.match_edges)

\* C40: every time to_path() finishes, every detector node of the graph
\* has distance_from_search_source and search_predecessor reset to none, so
\* that consecutive expansions, of the same or of different match edges, do
\* not influence each other.
C40_SearchFieldsResetAfterToPath ==
    Returned =>
        \A e1, e2 \in MatchEdges :
            /\ to_path_on(graph, e1, CleanFields(graph)).err = ""
            /\ to_path_on(graph, e1, CleanFields(graph)).fields = CleanFields(graph)
            /\ to_path_on(graph, e2, to_path_on(graph, e1, CleanFields(graph)).fields)
                   = to_path_on(graph, e2, CleanFields(graph))
            /\ to_path_on(graph, e2, CleanFields(graph)).path = to_path(graph, e2).path

\* The decode has returned a match edge between two detection events that
\* expands into several graph edges and one that ends at the boundary.
C40_Witness ==
    /\ Returned
    /\ \E e1, e2 \in MatchEdges :
           /\ e1.loc_to # None
           /\ Len(to_path_on(graph, e1, CleanFields(graph)).path) >= 2
           /\ e2.loc_to = None
           /\ to_path_on(graph, e2, CleanFields(graph)).err = ""

====
